---- MODULE Spec2Model ----
(***************************************************************************)
(* A model of the wikipedia index builder and path solver:                 *)
(*   - the bidirectional breadth-first Solver (commands/shortest_path.rs)  *)
(*   - the sorted-line binary search (binary_search_line.rs)               *)
(*   - the HierarchicalMap, by one thread and shared by several            *)
(*     (hierarchical_map.rs)                                               *)
(*   - the link maps (commands/links.rs), the titles (titles.rs), the      *)
(*     disk memoisation (memoise.rs) and the page readers (page.rs)        *)
(*   - the long path sampler (commands/long_paths.rs), download_file       *)
(*     (commands/download.rs), the links command (commands/links.rs) and   *)
(*     the wikilink scanner (parse/wikitext.rs)                            *)
(* Each part has its own variables and its own specification; a part's     *)
(* specification leaves the variables of the other parts at their idle     *)
(* values.                                                                 *)
(***************************************************************************)
EXTENDS Integers, Sequences, FiniteSets, TLC

VARIABLES
    \* ---- Solver (commands/shortest_path.rs) ----
    outgoing_links,  \* id -> set of ids it links to (read through HierarchicalMap::with)
    incoming_links,  \* id -> set of ids linking to it
    start,           \* Solver::start, a sequence of frontier maps id -> predecessor
    end,             \* Solver::end
    solver_pc,       \* "setup" | "loop" | "returned" | "panicked"
    solve_ret,       \* the Option<Vec<u32>> returned by solve
    \* ---- Sorted-line search (binary_search_line.rs) ----
    file,            \* the bytes of the file, one character each
    key,             \* the key searched for
    guess_min,
    guess_max,
    search_pc,       \* "setup" | "loop" | "returned" | "panicked"
    search_ret,      \* the Option<String> returned by binary_search_line_in_file
    \* ---- HierarchicalMap<u8, u32, Vec<u32>> (hierarchical_map.rs) ----
    hmap,            \* the map a first run builds and serialises
    hmap_pc,         \* "building" | "saved" | "panicked"
    fresh,           \* the map of a later run, created by HierarchicalMap::new
    fresh_pc,        \* what fresh has loaded: "new" | "lazy" (only deserialize(false)) |
                     \* "full" (deserialize(true) last) | "mixed" (anything else) |
                     \* "failed"
    disk,            \* data/<prefix>.json and data/<prefix>/<short key>.jsonl
    map_op,          \* the last call on either map and what it returned
    \* ---- generate_outgoing_links / generate_incoming_links (commands/links.rs) ----
    links_outgoing,  \* the HierarchicalMap "outgoing_links"
    links_incoming,  \* the HierarchicalMap "incoming_links"
    links_pc,        \* "outgoing" | "incoming" | "done" | "panicked"
    links_tx,        \* the entries the with_all thread has still to send
    links_chan,      \* crossbeam::channel::bounded(1)
    links_rx,        \* the (id, links) the receiving loop is working through
    links_received,  \* everything rx.recv() has returned so far, in order
    links_disk,      \* data/incoming_links.json and data/incoming_links/
    \* ---- canonicalise_wikilink (titles.rs) ----
    canon_input,     \* the &str given to canonicalise_wikilink
    canon_tokens,    \* how many pieces canon_input was put together from
    canon_once,      \* canonicalise_wikilink(canon_input), or its panic
    canon_twice,     \* canonicalise_wikilink of canon_once
    canon_pc,        \* "input" | "once" | "twice"
    \* ---- TitleMap (titles.rs) ----
    title_map,       \* the TitleMap: id_to_title and title_to_id
    title_inserts,   \* how many insert calls were made
    title_pc,        \* "inserting" | "loaded" | "panicked"
    title_op,        \* the last call on the TitleMap and what it returned
    \* ---- memoise (memoise.rs) ----
    memo_files,      \* the cache files under data/, by file name
    memo_first,      \* by file name, the first value a call returned
    memo_calls,      \* how many calls of memoise were made
    memo_op,         \* the last call of memoise and what it did
    \* ---- page_information (page.rs) ----
    page_dump,       \* the dump under data/: its status file and its shards
    page_pc,         \* "ready", or "panicked" once a call has panicked
    page_op,         \* the last call of page_information and how it ended
    \* ---- page_stream and the command that drains it (page.rs, links.rs) ----
    stream_pc,       \* where the command is
    stream_worker,   \* by shard, the worker thread: its state and position
    stream_chan,     \* the bounded channel
    stream_sent,     \* the position of the shared progress bar
    stream_max,      \* max, the position at which the workers stop
    stream_map,      \* the map the command builds
    stream_disk,     \* the directory the command serialises into
    \* ---- HierarchicalMap shared by threads (hierarchical_map.rs) ----
    conc_map,        \* the shared map: the flag and the outer BTreeMap
    conc_outer,      \* the RwLock around the outer BTreeMap
    conc_inner,      \* by short key, the RwLock around that partition
    conc_thread,     \* by thread, the call it is in and where
    conc_ops,        \* how many calls were started
    conc_done,       \* the keys of the insert and mutate calls that returned
    conc_written,    \* by key, the value of the last insert call that returned
    conc_raced,      \* whether or_default found a partition made meanwhile
    \* ---- the index loop of a page_stream worker (page.rs) ----
    index_pc,        \* "closed" | "reading" | "done"
    index_lines,     \* the lines of the shard's index file
    index_line,      \* how many lines the loop has gone through
    latest_offset,
    index_read,      \* the byte offsets given to read_pages, in order
    index_sent,      \* the articles given to tx.send, in order
    \* ---- the long path sampler (commands/long_paths.rs) ----
    sampler_thread,       \* by thread, where it is in its loop and its path
    longest_path_length,
    paths_tried,
    stdout_lock,          \* the thread that holds the lock of stdout
    stdout_lines,         \* the lines written to stdout, in order
    \* ---- download_file (commands/download.rs) ----
    download_disk,        \* by data file, the local file under data/
    download_verified,    \* the files whose digest was compared and matched
    download_op,          \* the last call of download_file and how it ended
    \* ---- the links command (commands/links.rs) ----
    links_cmd,            \* the last run of the command and how it ended
    \* ---- find_links and target_root (parse/wikitext.rs) ----
    wiki_text,            \* the wikitext of a page, one character each
    wiki_tokens,          \* how many pieces wiki_text was put together from
    wiki_links,           \* find_links(wiki_text)
    wiki_roots,           \* target_root of each link, or its panic
    wiki_pc               \* "input" | "scanned" | "panicked"

solverVars == <<outgoing_links, incoming_links, start, end, solver_pc, solve_ret>>

searchVars == <<file, key, guess_min, guess_max, search_pc, search_ret>>

mapVars == <<hmap, hmap_pc, fresh, fresh_pc, disk, map_op>>

linksVars == <<links_outgoing, links_incoming, links_pc, links_tx, links_chan,
               links_rx, links_received, links_disk>>

canonVars == <<canon_input, canon_tokens, canon_once, canon_twice, canon_pc>>

titleVars == <<title_map, title_inserts, title_pc, title_op>>

memoVars == <<memo_files, memo_first, memo_calls, memo_op>>

pageVars == <<page_dump, page_pc, page_op>>

streamVars == <<stream_pc, stream_worker, stream_chan, stream_sent, stream_max, stream_map,
                stream_disk>>

concVars == <<conc_map, conc_outer, conc_inner, conc_thread, conc_ops, conc_done,
              conc_written, conc_raced>>

indexVars == <<index_pc, index_lines, index_line, latest_offset, index_read, index_sent>>

samplerVars == <<sampler_thread, longest_path_length, paths_tried, stdout_lock, stdout_lines>>

\* The parts added after the shared map.
downloadVars == <<download_disk, download_verified, download_op>>

cmdVars == <<links_cmd>>

wikiVars == <<wiki_text, wiki_tokens, wiki_links, wiki_roots, wiki_pc>>

laterVars == <<indexVars, samplerVars, downloadVars, cmdVars, wikiVars>>

vars == <<solverVars, searchVars, mapVars, linksVars, canonVars, titleVars, memoVars,
          pageVars, streamVars, concVars, laterVars>>

\* What the actions of one part leave alone: the variables of the others.
notSolverVars ==
    <<searchVars, mapVars, linksVars, canonVars, titleVars, memoVars, pageVars, streamVars,
      concVars, laterVars>>

notSearchVars ==
    <<solverVars, mapVars, linksVars, canonVars, titleVars, memoVars, pageVars, streamVars,
      concVars, laterVars>>

notMapVars ==
    <<solverVars, searchVars, linksVars, canonVars, titleVars, memoVars, pageVars, streamVars,
      concVars, laterVars>>

notLinksVars ==
    <<solverVars, searchVars, mapVars, canonVars, titleVars, memoVars, pageVars, streamVars,
      concVars, laterVars>>

notCanonVars ==
    <<solverVars, searchVars, mapVars, linksVars, titleVars, memoVars, pageVars, streamVars,
      concVars, laterVars>>

notTitleVars ==
    <<solverVars, searchVars, mapVars, linksVars, canonVars, memoVars, pageVars, streamVars,
      concVars, laterVars>>

notMemoVars ==
    <<solverVars, searchVars, mapVars, linksVars, canonVars, titleVars, pageVars, streamVars,
      concVars, laterVars>>

notPageVars ==
    <<solverVars, searchVars, mapVars, linksVars, canonVars, titleVars, memoVars, streamVars,
      concVars, laterVars>>

notStreamVars ==
    <<solverVars, searchVars, mapVars, linksVars, canonVars, titleVars, memoVars, pageVars,
      concVars, laterVars>>

notConcVars ==
    <<solverVars, searchVars, mapVars, linksVars, canonVars, titleVars, memoVars, pageVars,
      streamVars, laterVars>>

earlierVars ==
    <<solverVars, searchVars, mapVars, linksVars, canonVars, titleVars, memoVars, pageVars,
      streamVars, concVars>>

notIndexVars == <<earlierVars, samplerVars, downloadVars, cmdVars, wikiVars>>

notSamplerVars == <<earlierVars, indexVars, downloadVars, cmdVars, wikiVars>>

notDownloadVars == <<earlierVars, indexVars, samplerVars, cmdVars, wikiVars>>

\* The links command reads the link maps and leaves them as they are.
notCmdVars == <<earlierVars, indexVars, samplerVars, downloadVars, wikiVars>>

notWikiVars == <<earlierVars, indexVars, samplerVars, downloadVars, cmdVars>>

(***************************************************************************)
(* Generic helpers                                                         *)
(***************************************************************************)
Min(S) == CHOOSE x \in S : \A y \in S : x <= y

Max(S) == CHOOSE x \in S : \A y \in S : x >= y

Last(seq) == seq[Len(seq)]

(***************************************************************************)
(* Solver                                                                  *)
(***************************************************************************)
\* Number of article ids in the solver's graph; ids are 1..NumIds, 0 is the
\* sentinel predecessor.
NumIds == 4

\* Largest number of links in the materialised graph.
MaxEdges == 4

Ids == 1..NumIds

\* The loop of solve is unbounded in the code; the model stops expanding a
\* side once it holds this many frontiers.
MaxDepth == NumIds + 2

None == [some |-> FALSE, path |-> <<>>]

Some(p) == [some |-> TRUE, path |-> p]

EdgeCount == Cardinality({e \in Ids \X Ids : e[2] \in outgoing_links[e[1]]})

\* The materialised graph gains the link x -> y: y joins outgoing[x] and x
\* joins incoming[y] (generate_incoming_links mirrors every outgoing link).
AddLink(x, y) ==
    /\ solver_pc = "setup"
    /\ y \notin outgoing_links[x]
    /\ EdgeCount < MaxEdges
    /\ outgoing_links' = [outgoing_links EXCEPT ![x] = @ \cup {y}]
    /\ incoming_links' = [incoming_links EXCEPT ![y] = @ \cup {x}]
    /\ UNCHANGED <<start, end, solver_pc, solve_ret>>
    /\ UNCHANGED notSolverVars

\* Solver::new(s, t)
SolverNew(s, t) ==
    /\ solver_pc = "setup"
    /\ start' = <<[k \in {s} |-> 0]>>
    /\ end' = <<[k \in {t} |-> 0]>>
    /\ solver_pc' = "loop"
    /\ UNCHANGED <<outgoing_links, incoming_links, solve_ret>>
    /\ UNCHANGED notSolverVars

\* A mutation of LinksOf: the inner loop stops after the first link.
LinksOfFirstOnly(links, id) ==
    IF links[id] = {} THEN {} ELSE {Min(links[id])}

\* links.with(id, |links| links.clone()).into_iter().flatten()
LinksOf(links, id) == links[id]

\* A mutation of BackwardMap: the backward side reads the outgoing map.
BackwardMapOutgoing == outgoing_links

\* The map populate_forward reads.
ForwardMap == outgoing_links

\* The map populate_backward reads.
BackwardMap == incoming_links

ForwardLinks(id) == LinksOf(ForwardMap, id)

BackwardLinks(id) == LinksOf(BackwardMap, id)

\* self.start.iter().any(|map| map.contains_key(&link))
InAny(frontiers, link) == \E i \in 1..Len(frontiers) : link \in DOMAIN frontiers[i]

\* The keys of new_map after the loops of populate_forward.
ForwardKeys ==
    {link \in Ids : /\ \E id \in DOMAIN Last(start) : link \in ForwardLinks(id)
                    /\ ~InAny(start, link)}

\* The keys of new_map after the loops of populate_backward: the guarded
\* insert of line 99 and the unconditional insert of line 101.
BackwardKeys ==
    {link \in Ids : /\ \E id \in DOMAIN Last(end) : link \in BackwardLinks(id)
                    /\ ~InAny(end, link)}
    \cup
    {link \in Ids : \E id \in DOMAIN Last(end) : link \in BackwardLinks(id)}

\* The new_map values: HashMap::insert overwrites, and the frontier is walked
\* in the hash map's order, so a key keeps any one of the ids that link to it.
NewMaps(keys, frontier, links) ==
    {m \in [keys -> DOMAIN frontier] : \A link \in keys : link \in LinksOf(links, m[link])}

\* start_map.keys().find(|key| end_map.contains_key(key)): the first common
\* key in the hash map's order, so any common key.
Connections == DOMAIN Last(start) \cap DOMAIN Last(end)

\* The first while loop of complete_path: path.insert(0, ..) walking start
\* pointers. rank is start_rank; underflow records that start_rank -= 1 ran
\* with start_rank = 0.
RECURSIVE WalkStart(_, _, _, _)
WalkStart(towards_start, start_rank, path, underflow) ==
    IF towards_start = 0
    THEN [path |-> path, underflow |-> underflow]
    ELSE WalkStart(start[start_rank + 1][towards_start],
                   IF start_rank = 0 THEN 0 ELSE start_rank - 1,
                   <<towards_start>> \o path,
                   underflow \/ start_rank = 0)

\* The second while loop of complete_path: path.push(..) walking end pointers.
RECURSIVE WalkEnd(_, _, _)
WalkEnd(towards_end, end_rank, path) ==
    IF end_rank = 0
    THEN path
    ELSE LET next == end[end_rank + 1][towards_end]
         IN WalkEnd(next, end_rank - 1, Append(path, next))

\* complete_path for the chosen connection.
CompletePath(connection) ==
    LET first == WalkStart(connection, Len(start) - 1, <<>>, FALSE)
    IN [path |-> WalkEnd(connection, Len(end) - 1, first.path),
        underflow |-> first.underflow]

EitherEmpty == DOMAIN Last(start) = {} \/ DOMAIN Last(end) = {}

\* solve, line 161: one of the latest frontiers is empty.
ReturnNone ==
    /\ solver_pc = "loop"
    /\ EitherEmpty
    /\ solve_ret' = None
    /\ solver_pc' = "returned"
    /\ UNCHANGED <<outgoing_links, incoming_links, start, end>>
    /\ UNCHANGED notSolverVars

\* solve, line 167: complete_path found a connection. start_rank -= 1 runs
\* once with start_rank = 0: a build with overflow checks panics there, a
\* build without them wraps and returns the path.
ReturnPath ==
    /\ solver_pc = "loop"
    /\ ~EitherEmpty
    /\ \E connection \in Connections :
         LET r == CompletePath(connection)
         IN \/ /\ solve_ret' = Some(r.path)
               /\ solver_pc' = "returned"
            \/ /\ r.underflow
               /\ solve_ret' = solve_ret
               /\ solver_pc' = "panicked"
    /\ UNCHANGED <<outgoing_links, incoming_links, start, end>>
    /\ UNCHANGED notSolverVars

\* solve, line 175
PopulateForward ==
    /\ solver_pc = "loop"
    /\ ~EitherEmpty
    /\ Connections = {}
    /\ Cardinality(DOMAIN Last(start)) <= Cardinality(DOMAIN Last(end))
    /\ Len(start) < MaxDepth
    /\ \E new_map \in NewMaps(ForwardKeys, Last(start), ForwardMap) :
         start' = Append(start, new_map)
    /\ UNCHANGED <<outgoing_links, incoming_links, end, solver_pc, solve_ret>>
    /\ UNCHANGED notSolverVars

\* solve, line 180
PopulateBackward ==
    /\ solver_pc = "loop"
    /\ ~EitherEmpty
    /\ Connections = {}
    /\ Cardinality(DOMAIN Last(start)) > Cardinality(DOMAIN Last(end))
    /\ Len(end) < MaxDepth
    /\ \E new_map \in NewMaps(BackwardKeys, Last(end), BackwardMap) :
         end' = Append(end, new_map)
    /\ UNCHANGED <<outgoing_links, incoming_links, start, solver_pc, solve_ret>>
    /\ UNCHANGED notSolverVars

InitSolver ==
    /\ outgoing_links = [id \in Ids |-> {}]
    /\ incoming_links = [id \in Ids |-> {}]
    /\ start = <<>>
    /\ end = <<>>
    /\ solver_pc = "setup"
    /\ solve_ret = None

NextSolver ==
    \/ \E x \in Ids, y \in Ids : AddLink(x, y)
    \/ \E s \in Ids, t \in Ids : SolverNew(s, t)
    \/ ReturnNone
    \/ ReturnPath
    \/ PopulateForward
    \/ PopulateBackward

(***************************************************************************)
(* Solver: what the claims are measured against                            *)
(***************************************************************************)
SolverS == CHOOSE k \in DOMAIN start[1] : TRUE

SolverT == CHOOSE k \in DOMAIN end[1] : TRUE

\* The ids reachable from s in exactly n links or fewer.
RECURSIVE Within(_, _)
Within(s, n) ==
    IF n = 0 THEN {s}
    ELSE LET prev == Within(s, n - 1)
         IN prev \cup UNION {outgoing_links[u] : u \in prev}

Reachable(s, t) == t \in Within(s, NumIds)

\* The number of links on a shortest directed path from s to t.
Dist(s, t) == Min({n \in 0..NumIds : t \in Within(s, n)})

Returned == solver_pc = "returned"

\* C1: a returned path is a shortest one: no directed path from s to t has
\* fewer links than the returned path.
C1_Optimal ==
    (Returned /\ solve_ret.some) =>
        /\ Reachable(SolverS, SolverT)
        /\ Len(solve_ret.path) - 1 <= Dist(SolverS, SolverT)

\* A path of two or more links was returned after both sides were expanded.
C1_Witness ==
    /\ Returned /\ solve_ret.some
    /\ Len(solve_ret.path) >= 3
    /\ Len(start) >= 2 /\ Len(end) >= 2

\* The graph A -> B -> C, A -> D -> C with A, B, C, D = 1, 2, 3, 4.
Diamond == [id \in Ids |-> IF id = 1 THEN {2, 4} ELSE IF id \in {2, 4} THEN {3} ELSE {}]

\* The graph A -> B, C -> B.
Converging == [id \in Ids |-> IF id \in {1, 3} THEN {2} ELSE {}]

\* solve runs from s to t on the graph out.
Solving(out, s, t) ==
    solver_pc # "setup" /\ outgoing_links = out /\ SolverS = s /\ SolverT = t

\* solve can only return None, and does so before the forward side holds a
\* fourth frontier or the backward side a second one.
OnlyNone ==
    /\ solver_pc \in {"loop", "returned"}
    /\ Returned => ~solve_ret.some
    /\ Len(start) <= 3
    /\ Len(end) = 1

\* C2: absence is sound: when solve returns None no directed path from s
\* to t exists; solve(C, A) on A -> B -> C, A -> D -> C and solve(A, C) on
\* A -> B, C -> B return None.
C2_AbsenceSound ==
    /\ (Returned /\ ~solve_ret.some) => ~Reachable(SolverS, SolverT)
    /\ Solving(Diamond, 3, 1) => OnlyNone
    /\ Solving(Converging, 1, 3) => OnlyNone

\* None was returned for solve(A, C) on A -> B, C -> B, where s has an
\* outgoing link.
C2_Witness ==
    /\ Returned /\ ~solve_ret.some
    /\ Solving(Converging, 1, 3)
    /\ outgoing_links[SolverS] # {}

\* C3: a returned path begins with s, ends with t, holds no 0, and each
\* consecutive pair is a link of the outgoing map.
C3_PathValid ==
    (Returned /\ solve_ret.some) =>
        LET p == solve_ret.path
        IN /\ Len(p) >= 1
           /\ p[1] = SolverS
           /\ p[Len(p)] = SolverT
           /\ \A i \in 1..Len(p) : p[i] # 0
           /\ \A i \in 1..(Len(p) - 1) : p[i + 1] \in outgoing_links[p[i]]

\* A path through an intermediate id was rebuilt from both pointer chains.
C3_Witness ==
    /\ Returned /\ solve_ret.some
    /\ Len(solve_ret.path) >= 3
    /\ Len(end) >= 2
    /\ solve_ret.path[2] \in DOMAIN Last(end)

\* C4: solve terminates. Stated with its variant: the frontiers of one side
\* are distinct plies of a search over NumIds ids, so a side never holds more
\* than NumIds non-empty frontiers and one empty one.
C4_Terminates ==
    (solver_pc # "setup") => (Len(start) <= NumIds + 1 /\ Len(end) <= NumIds + 1)

\* The vertex sequences solve can return from a state of its loop in which
\* complete_path finds a connection: one for each key that
\* start_map.keys().find(..) can meet first.
PathsFromHere == {CompletePath(connection).path : connection \in Connections}

\* C21: solve is deterministic: the vertex sequence it returns for a graph,
\* s and t does not depend on the order in which the frontier hash maps are
\* iterated, so whichever common key complete_path meets first, the path is
\* the same.
C21_Deterministic ==
    (solver_pc = "loop" /\ ~EitherEmpty /\ Connections # {}) =>
        Cardinality(PathsFromHere) = 1

\* Every path solve can return from one state of its loop has the same
\* length.
SameLengthFromHere ==
    (solver_pc = "loop" /\ ~EitherEmpty) =>
        \A p \in PathsFromHere, q \in PathsFromHere : Len(p) = Len(q)

DisjointFrontiers(frontiers) ==
    \A i \in 1..Len(frontiers), j \in 1..Len(frontiers) :
        i # j => DOMAIN frontiers[i] \cap DOMAIN frontiers[j] = {}

\* C26: populate_backward adds a link to the new end frontier only if it is
\* in no earlier end frontier, as populate_forward does on the start side:
\* no id is in two end frontiers and no id is in two start frontiers.
C26_BackwardSymmetric ==
    (solver_pc # "setup") => (DisjointFrontiers(start) /\ DisjointFrontiers(end))

\* The start side keeps its frontiers disjoint.
StartFrontiersDisjoint == (solver_pc # "setup") => DisjointFrontiers(start)

(***************************************************************************)
(* Sorted-line binary search                                               *)
(***************************************************************************)
\* Largest number of lines in a searched file.
MaxLines == 3

\* Largest key of a line; keys are single digits.
MaxKey == 3

\* Largest number of characters of a line before its newline.
MaxLineLen == 3

NL == "\n"

Digits == <<"0", "1", "2", "3", "4", "5", "6", "7", "8", "9">>

DigitChars == {Digits[i] : i \in 1..10}

DigitVal(c) == (CHOOSE i \in 1..10 : Digits[i] = c) - 1

\* A line of a test file: the key's digit, padding, and the newline unless
\* the line is an unterminated last line.
TextLine(k, len, terminated) ==
    <<Digits[k + 1]>> \o [i \in 1..(len - 1) |-> "x"]
        \o (IF terminated THEN <<NL>> ELSE <<>>)

\* u64::saturating_sub
SaturatingSub(a, b) == IF a >= b THEN a - b ELSE 0

\* BufRead::read_until(b'\n') from offset pos: the offset after the first
\* newline at or after pos, or the end of the file.
ReadUntilNewline(bytes, pos) ==
    LET nls == {o \in pos..(Len(bytes) - 1) : bytes[o + 1] = NL}
    IN IF nls = {} THEN Max({pos, Len(bytes)}) ELSE Min(nls) + 1

\* next_line_starting_at: skip the possibly partial line when start > 0, then
\* read one line (newline included); empty at the end of the file.
NextLineStartingAt(bytes, at) ==
    LET from == IF at > 0 THEN ReadUntilNewline(bytes, at) ELSE 0
        to == ReadUntilNewline(bytes, from)
    IN SubSeq(bytes, from + 1, to)

\* The digits of a decimal number, most significant first.
RECURSIVE ToDigits(_)
ToDigits(n) ==
    IF n < 10 THEN <<Digits[n + 1]>>
    ELSE ToDigits(n \div 10) \o <<Digits[(n % 10) + 1]>>

\* The number a run of decimal digits spells.
RECURSIVE FromDigits(_)
FromDigits(ds) ==
    IF Len(ds) = 0 THEN 0
    ELSE 10 * FromDigits(SubSeq(ds, 1, Len(ds) - 1)) + DigitVal(ds[Len(ds)])

\* The offset in line of the first occurrence of character c (0 when absent).
IndexOf(line, c) ==
    IF \E i \in 1..Len(line) : line[i] = c
    THEN Min({i \in 1..Len(line) : line[i] = c})
    ELSE 0

\* The leading run of digits of a line.
LeadingDigits(line) ==
    LET stop == {i \in 1..Len(line) : line[i] \notin DigitChars}
    IN IF stop = {} THEN line ELSE SubSeq(line, 1, Min(stop) - 1)

\* A JSON array of numbers: "[1,2]".
RECURSIVE JoinNumbers(_)
JoinNumbers(ns) ==
    IF Len(ns) = 0 THEN <<>>
    ELSE IF Len(ns) = 1 THEN ToDigits(ns[1])
    ELSE ToDigits(ns[1]) \o <<",">> \o JoinNumbers(Tail(ns))

JsonArray(ns) == <<"[">> \o JoinNumbers(ns) \o <<"]">>

\* The numbers of a comma-separated run of digits.
RECURSIVE SplitNumbers(_)
SplitNumbers(text) ==
    IF Len(text) = 0 THEN <<>>
    ELSE LET comma == IndexOf(text, ",")
         IN IF comma = 0 THEN <<FromDigits(text)>>
            ELSE <<FromDigits(SubSeq(text, 1, comma - 1))>>
                     \o SplitNumbers(SubSeq(text, comma + 1, Len(text)))

\* serde_json::from_reader::<Vec<_>>: the numbers of "[1,2]".
ParseArray(text) == SplitNumbers(SubSeq(text, 2, Len(text) - 1))

\* serde_json::to_writer(&(key, value)) followed by writeln!: "[key,[..]]\n"
JsonLine(k, v) == <<"[">> \o ToDigits(k) \o <<",">> \o JsonArray(v) \o <<"]", NL>>

\* serde_json::from_str::<(L, V)>(line).0
JsonKey(line) == FromDigits(SubSeq(line, 2, IndexOf(line, ",") - 1))

\* serde_json::from_str::<(L, V)>(line).1; BufRead::lines has dropped the
\* newline where the line comes from deserialize, read_until has kept it
\* where it comes from the search.
JsonValue(line) ==
    LET text == IF Last(line) = NL THEN SubSeq(line, 1, Len(line) - 1) ELSE line
    IN ParseArray(SubSeq(text, IndexOf(text, ",") + 1, Len(text) - 1))

\* The get_key closure handed to binary_search_line_in_file: the key of a
\* [key,value] line for find_entry_in_file, the leading integer for text lines.
GetKey(kind, line) ==
    IF kind = "json" THEN JsonKey(line) ELSE FromDigits(LeadingDigits(line))

\* guess_max - guess_min <= 2 (u64 subtraction: see Underflows)
OneOption(min, max) == max - min <= 2

\* guess_max - guess_min with guess_max < guess_min overflows u64.
Underflows(min, max) == max < min

\* A mutation of GuessOf: the collapsed window probes its middle as well.
GuessOfAlwaysMiddle(min, max) == (min + max) \div 2

\* let guess = if one_option { guess_min } else { (guess_min + guess_max) / 2 }
GuessOf(min, max) == IF OneOption(min, max) THEN min ELSE (min + max) \div 2

\* One iteration of the loop of binary_search_line_in_file on bytes, from the
\* window [min, max]: the next window and, when the loop returns, the result.
SearchIteration(bytes, kind, q, min, max) ==
    LET one_option == OneOption(min, max)
        guess == GuessOf(min, max)
        next_line == NextLineStartingAt(bytes, guess)
    IN IF next_line = <<>>
       THEN [pc |-> "loop", min |-> min, max |-> SaturatingSub(max, 2), ret |-> None]
       ELSE IF kind = "json" /\ next_line = <<NL>>
       THEN [pc |-> "panicked", min |-> min, max |-> max, ret |-> None]
       ELSE LET found_key == GetKey(kind, next_line)
            IN IF q = found_key
               THEN [pc |-> "returned", min |-> min, max |-> max,
                     ret |-> [some |-> TRUE, path |-> next_line]]
               ELSE [pc |-> IF one_option THEN "returned" ELSE "loop",
                     min |-> IF q > found_key THEN guess ELSE min,
                     max |-> IF q < found_key THEN guess ELSE max,
                     ret |-> None]

LineCount == Cardinality({i \in 1..Len(file) : file[i] = NL})
                 + (IF file # <<>> /\ Last(file) # NL THEN 1 ELSE 0)

\* The lines of bytes, in order, each with its newline.
RECURSIVE LinesOf(_)
LinesOf(bytes) ==
    IF bytes = <<>> THEN <<>>
    ELSE LET to == ReadUntilNewline(bytes, 0)
         IN <<SubSeq(bytes, 1, to)>> \o LinesOf(SubSeq(bytes, to + 1, Len(bytes)))

\* The lines of bytes that are more than a newline.
RECURSIVE KeyedLines(_)
KeyedLines(lines) ==
    IF lines = <<>> THEN <<>>
    ELSE IF Head(lines) = <<NL>> THEN KeyedLines(Tail(lines))
    ELSE <<Head(lines)>> \o KeyedLines(Tail(lines))

LastKey ==
    IF KeyedLines(LinesOf(file)) = <<>> THEN 0
    ELSE GetKey("text", Last(KeyedLines(LinesOf(file))))

\* The file gains a line with key k; keys never decrease along the file.
AppendLine(k, len, terminated) ==
    /\ search_pc = "setup"
    /\ LineCount < MaxLines
    /\ (IF file = <<>> THEN TRUE ELSE Last(file) = NL)
    /\ k >= LastKey
    /\ file' = file \o TextLine(k, len, terminated)
    /\ UNCHANGED <<key, guess_min, guess_max, search_pc, search_ret>>
    /\ UNCHANGED notSearchVars

\* The file gains an empty line.
AppendEmptyLine ==
    /\ search_pc = "setup"
    /\ LineCount < MaxLines
    /\ (IF file = <<>> THEN TRUE ELSE Last(file) = NL)
    /\ file' = Append(file, NL)
    /\ UNCHANGED <<key, guess_min, guess_max, search_pc, search_ret>>
    /\ UNCHANGED notSearchVars

\* binary_search_line_in_file(file, get_key, &q), lines 37-38
SearchBegin(q) ==
    /\ search_pc = "setup"
    /\ key' = q
    /\ guess_min' = 0
    /\ guess_max' = Len(file)
    /\ search_pc' = "loop"
    /\ UNCHANGED <<file, search_ret>>
    /\ UNCHANGED notSearchVars

\* One iteration of the loop, lines 40-77.
SearchLoop ==
    /\ search_pc = "loop"
    /\ ~Underflows(guess_min, guess_max)
    /\ LET n == SearchIteration(file, "text", key, guess_min, guess_max)
       IN /\ search_pc' = n.pc
          /\ guess_min' = n.min
          /\ guess_max' = n.max
          /\ search_ret' = n.ret
    /\ UNCHANGED <<file, key>>
    /\ UNCHANGED notSearchVars

InitSearch ==
    /\ file = <<>>
    /\ key = 0
    /\ guess_min = 0
    /\ guess_max = 0
    /\ search_pc = "setup"
    /\ search_ret = None

NextSearch ==
    \/ \E k \in 1..MaxKey, len \in 1..MaxLineLen, terminated \in BOOLEAN :
         AppendLine(k, len, terminated)
    \/ AppendEmptyLine
    \/ \E q \in 0..(MaxKey + 1) : SearchBegin(q)
    \/ SearchLoop

(***************************************************************************)
(* Sorted-line search: what the claims are measured against                *)
(***************************************************************************)
SearchReturned == search_pc = "returned"

KeysInFile ==
    {GetKey("text", KeyedLines(LinesOf(file))[i]) : i \in 1..Len(KeyedLines(LinesOf(file)))}

\* C8: the search returns a line whose key is the query when the file holds
\* one, None when it holds none, and never a line with another key.
C8_SearchCorrect ==
    SearchReturned =>
        /\ search_ret.some =>
             /\ GetKey("text", search_ret.path) = key
             /\ \E i \in 1..Len(LinesOf(file)) : LinesOf(file)[i] = search_ret.path
        /\ (key \in KeysInFile) => search_ret.some

NoUnderflow == ~Underflows(guess_min, guess_max)

\* C27: the search returns after finitely many probes for every file and
\* query, the empty file and a query above every key included.
C27_SearchTerminates == (search_pc = "loop") ~> (search_pc = "returned")

\* The first line of the file whose key is q.
FirstWithKey(q) ==
    LET lines == KeyedLines(LinesOf(file))
    IN lines[Min({i \in 1..Len(lines) : GetKey("text", lines[i]) = q})]

\* C28: when several consecutive lines have the key searched for, the
\* search returns the first of them.
C28_FirstMatch ==
    (SearchReturned /\ search_ret.some /\ key \in KeysInFile) =>
        search_ret.path = FirstWithKey(key)

\* With one line of the key at most, a line returned is that line.
OnlyMatchWhenUnique ==
    (/\ SearchReturned /\ search_ret.some /\ key \in KeysInFile
     /\ Cardinality({i \in 1..Len(KeyedLines(LinesOf(file))) :
                        GetKey("text", KeyedLines(LinesOf(file))[i]) = key}) = 1) =>
        search_ret.path = FirstWithKey(key)

\* The line the next iteration reads at its guess, lines 45-52.
ProbedLine == NextLineStartingAt(file, GuessOf(guess_min, guess_max))

\* C29: a line that is only a newline is never passed to the key extractor
\* nor compared with the query: the line an iteration hands to get_key on
\* line 61 is never such a line.
C29_EmptyLinesSkipped ==
    (search_pc = "loop" /\ ~Underflows(guess_min, guess_max)) => ProbedLine # <<NL>>

(***************************************************************************)
(* HierarchicalMap<u8, u32, Vec<u32>>                                      *)
(***************************************************************************)
\* Number of distinct keys (article ids) the maps are given.
NumMapKeys == 4

\* Largest length of a stored Vec<u32>.
MaxVecLen == 1

\* id_short_key: `*id as u8` keeps the low 8 bits.
ShortKeyModulus == 256

IdShortKey(id) == id % ShortKeyModulus

\* The i-th key: 1, 257, 513, 2, 258, 514, ... so that keys share short keys.
KeyAt(i) == ((i - 1) % 3) * ShortKeyModulus + ((i + 2) \div 3)

MapKeys == {KeyAt(i) : i \in 1..NumMapKeys}

\* The ids stored in values.
VecElems == {KeyAt(1), KeyAt(2)}

Vecs == UNION {[1..n -> VecElems] : n \in 0..MaxVecLen}

\* The keys a later run inserts itself, one of each of two partitions, and
\* the value it gives them.
FreshKeys == {KeyAt(1), KeyAt(4)}

FreshVecs == {<<KeyAt(2)>>}

\* BTreeMap iteration order: ascending.
RECURSIVE SortedSeq(_)
SortedSeq(S) ==
    IF S = {} THEN <<>> ELSE <<Min(S)>> \o SortedSeq(S \ {Min(S)})

\* A mutation of Range: the first element is left out.
RangeButFirst(seq) == {seq[i] : i \in 2..Len(seq)}

Range(seq) == {seq[i] : i \in 1..Len(seq)}

\* BTreeMap::insert
Put(f, k, v) == [x \in DOMAIN f \cup {k} |-> IF x = k THEN v ELSE f[x]]

\* HierarchicalMap::new
NewMap == [fully_loaded |-> FALSE, map |-> <<>>]

NoFile == [exists |-> FALSE, bytes |-> <<>>]

\* A mutation of HMInsert: a missing partition is created but the entry is
\* not stored in it.
HMInsertDropsFirst(m, l, v) ==
    LET short_key == IdShortKey(l)
    IN IF short_key \in DOMAIN m.map
       THEN [m EXCEPT !.map[short_key] = Put(@, l, v)]
       ELSE [m EXCEPT !.map = Put(@, short_key, <<>>)]

\* A mutation of InsertAt: the entry goes into the least partition at hand.
InsertAtLeastPartition(m, short_key, l, v) ==
    LET k == Min(DOMAIN m.map \cup {short_key})
    IN IF k \in DOMAIN m.map
       THEN [m EXCEPT !.map[k] = Put(@, l, v)]
       ELSE [m EXCEPT !.map = Put(@, k, Put(<<>>, l, v))]

\* HierarchicalMap::insert, one thread, with short_key = (self.shorten)(&key):
\* the partition of the short key is created when missing
\* (entry(short_key).or_default()).
InsertAt(m, short_key, l, v) ==
    IF short_key \in DOMAIN m.map
    THEN [m EXCEPT !.map[short_key] = Put(@, l, v)]
    ELSE [m EXCEPT !.map = Put(@, short_key, Put(<<>>, l, v))]

\* insert on a map whose shorten is id_short_key
HMInsert(m, l, v) == InsertAt(m, IdShortKey(l), l, v)

\* The value under l in memory, or the default.
ValueOrDefault(m, l) ==
    LET short_key == IdShortKey(l)
    IN IF short_key \in DOMAIN m.map
       THEN IF l \in DOMAIN m.map[short_key] THEN m.map[short_key][l] ELSE <<>>
       ELSE <<>>

\* A mutation of HMMutatePush: the list is replaced, as insert would.
HMMutatePushOverwrites(m, l, x) == HMInsert(m, l, <<x>>)

\* HierarchicalMap::mutate_with_default(l, |list| list.push(x))
HMMutatePush(m, l, x) == HMInsert(m, l, Append(ValueOrDefault(m, l), x))

\* binary_search_line_in_file run to its return. A window that an iteration
\* leaves as it was is probed again for ever: the call hangs.
RECURSIVE SearchFrom(_, _, _, _, _)
SearchFrom(bytes, kind, q, min, max) ==
    IF Underflows(min, max)
    THEN [pc |-> "panicked", min |-> min, max |-> max, ret |-> None]
    ELSE LET n == SearchIteration(bytes, kind, q, min, max)
         IN IF n.pc = "returned" THEN n
            ELSE IF n.min = min /\ n.max = max THEN [n EXCEPT !.pc = "hung"]
            ELSE SearchFrom(bytes, kind, q, n.min, n.max)

\* find_entry_in_file
FindEntryInFile(bytes, l) == SearchFrom(bytes, "json", l, 0, Len(bytes))

\* short_key.to_string(): the name of the partition file.
PartName(short_key) == ToDigits(short_key)

Result(m, outcome, value) == [m |-> m, outcome |-> outcome, value |-> value]

\* A mutation of HMWith: the fully_loaded flag is not looked at.
HMWithIgnoresLoaded(m, d, l) ==
    LET short_key == IdShortKey(l)
        inner == IF short_key \in DOMAIN m.map THEN m.map[short_key] ELSE <<>>
    IN IF l \in DOMAIN inner THEN Result(m, "some", inner[l])
       ELSE IF PartName(short_key) \notin DOMAIN d.parts THEN Result(m, "none", <<>>)
       ELSE LET r == FindEntryInFile(d.parts[PartName(short_key)], l)
            IN IF r.pc = "returned" /\ r.ret.some
               THEN Result(HMInsert(m, l, JsonValue(r.ret.path)), "some",
                           JsonValue(r.ret.path))
               ELSE IF r.pc = "returned" THEN Result(m, "none", <<>>)
               ELSE Result(m, r.pc, <<>>)

\* A mutation of HMWith: a value found on the disk is not kept in memory.
HMWithForgets(m, d, l) ==
    LET short_key == IdShortKey(l)
        inner == IF short_key \in DOMAIN m.map THEN m.map[short_key] ELSE <<>>
    IN IF l \in DOMAIN inner THEN Result(m, "some", inner[l])
       ELSE IF m.fully_loaded THEN Result(m, "none", <<>>)
       ELSE IF PartName(short_key) \notin DOMAIN d.parts THEN Result(m, "none", <<>>)
       ELSE LET r == FindEntryInFile(d.parts[PartName(short_key)], l)
            IN IF r.pc = "returned" /\ r.ret.some
               THEN Result(m, "some", JsonValue(r.ret.path))
               ELSE IF r.pc = "returned" THEN Result(m, "none", <<>>)
               ELSE Result(m, r.pc, <<>>)

\* HierarchicalMap::with(l, |v| v.clone()): the map afterwards, the kind of
\* return ("some", "none", or the call panics or hangs) and the value.
HMWith(m, d, l) ==
    LET short_key == IdShortKey(l)
        inner == IF short_key \in DOMAIN m.map THEN m.map[short_key] ELSE <<>>
    IN IF l \in DOMAIN inner THEN Result(m, "some", inner[l])
       ELSE IF m.fully_loaded THEN Result(m, "none", <<>>)
       ELSE IF PartName(short_key) \notin DOMAIN d.parts THEN Result(m, "none", <<>>)
       ELSE LET r == FindEntryInFile(d.parts[PartName(short_key)], l)
            IN IF r.pc = "returned" /\ r.ret.some
               THEN Result(HMInsert(m, l, JsonValue(r.ret.path)), "some",
                           JsonValue(r.ret.path))
               ELSE IF r.pc = "returned" THEN Result(m, "none", <<>>)
               ELSE Result(m, r.pc, <<>>)

RECURSIVE ConcatAll(_)
ConcatAll(seqs) ==
    IF Len(seqs) = 0 THEN <<>> ELSE seqs[1] \o ConcatAll(Tail(seqs))

\* A mutation of PartitionFile: the last entry of a partition is not written.
PartitionFileShort(inner) ==
    LET keys == SortedSeq(DOMAIN inner)
    IN ConcatAll([i \in 1..(Len(keys) - 1) |-> JsonLine(keys[i], inner[keys[i]])])

\* serialize, lines 295-298: one line per entry of the partition, in the
\* BTreeMap's ascending key order.
PartitionFile(inner) ==
    LET keys == SortedSeq(DOMAIN inner)
    IN ConcatAll([i \in 1..Len(keys) |-> JsonLine(keys[i], inner[keys[i]])])

\* serialize on a fully loaded map: the manifest and every partition file
\* are created (truncated); other files stay.
HMSerialize(m, d) ==
    LET names == {PartName(k) : k \in DOMAIN m.map}
        keyOf(name) == CHOOSE k \in DOMAIN m.map : PartName(k) = name
    IN [manifest |-> [exists |-> TRUE, bytes |-> JsonArray(SortedSeq(DOMAIN m.map))],
        parts |-> [name \in DOMAIN d.parts \cup names |->
                     IF name \in names THEN PartitionFile(m.map[keyOf(name)])
                     ELSE d.parts[name]]]

\* deserialize, lines 350-357: every non-empty line of the file is inserted
\* into the partition.
RECURSIVE LoadLines(_, _)
LoadLines(inner, lines) ==
    IF Len(lines) = 0 THEN inner
    ELSE IF lines[1] = <<NL>> THEN LoadLines(inner, Tail(lines))
    ELSE LoadLines(Put(inner, JsonKey(lines[1]), JsonValue(lines[1])), Tail(lines))

\* HierarchicalMap::deserialize(full): the map afterwards and the return
\* ("true", "false", or "err" when a partition file cannot be opened).
HMDeserialize(m, d, full) ==
    IF ~d.manifest.exists THEN Result(m, "false", <<>>)
    ELSE LET keys == Range(ParseArray(d.manifest.bytes))
             reset == [k \in DOMAIN m.map \cup keys |->
                         IF k \in keys THEN <<>> ELSE m.map[k]]
             has(k) == PartName(k) \in DOMAIN d.parts
             loaded == [k \in DOMAIN reset |->
                          IF has(k)
                          THEN LoadLines(reset[k], LinesOf(d.parts[PartName(k)]))
                          ELSE reset[k]]
         IN IF ~full THEN Result([m EXCEPT !.map = reset], "true", <<>>)
            ELSE IF \E k \in DOMAIN reset : ~has(k)
            THEN Result([m EXCEPT !.map = loaded], "err", <<>>)
            ELSE Result([fully_loaded |-> TRUE, map |-> loaded], "true", <<>>)

\* with, lines 199-211: File::open on the partition file is reached only on a
\* miss in memory of a map that is not fully loaded.
OpensFile(m, l) ==
    LET short_key == IdShortKey(l)
        inner == IF short_key \in DOMAIN m.map THEN m.map[short_key] ELSE <<>>
    IN l \notin DOMAIN inner /\ ~m.fully_loaded

\* The last call: opened tells whether it opened a partition file to search.
Op(name, obj, l, full, outcome, value) ==
    [name |-> name, obj |-> obj, key |-> l, full |-> full,
     outcome |-> outcome, value |-> value, opened |-> FALSE]

\* hmap.insert(l, v)
MapInsert(l, v) ==
    /\ hmap_pc = "building"
    /\ hmap' = HMInsert(hmap, l, v)
    /\ map_op' = Op("insert", "hmap", l, FALSE, "unit", v)
    /\ UNCHANGED <<hmap_pc, fresh, fresh_pc, disk>>
    /\ UNCHANGED notMapVars

\* hmap.mutate_with_default(l, |list| list.push(x))
MapMutate(l, x) ==
    /\ hmap_pc = "building"
    /\ Len(ValueOrDefault(hmap, l)) < MaxVecLen
    /\ hmap' = HMMutatePush(hmap, l, x)
    /\ map_op' = Op("mutate_with_default", "hmap", l, FALSE, "unit", <<x>>)
    /\ UNCHANGED <<hmap_pc, fresh, fresh_pc, disk>>
    /\ UNCHANGED notMapVars

\* hmap.mark_loaded()
MapMarkLoaded ==
    /\ hmap_pc = "building"
    /\ ~hmap.fully_loaded
    /\ hmap' = [hmap EXCEPT !.fully_loaded = TRUE]
    /\ map_op' = Op("mark_loaded", "hmap", 0, FALSE, "unit", <<>>)
    /\ UNCHANGED <<hmap_pc, fresh, fresh_pc, disk>>
    /\ UNCHANGED notMapVars

\* hmap.serialize(): panics before touching the disk unless fully loaded.
MapSerialize ==
    /\ hmap_pc = "building"
    /\ IF hmap.fully_loaded
       THEN /\ disk' = HMSerialize(hmap, disk)
            /\ hmap_pc' = "saved"
            /\ map_op' = Op("serialize", "hmap", 0, FALSE, "unit", <<>>)
       ELSE /\ disk' = disk
            /\ hmap_pc' = "panicked"
            /\ map_op' = Op("serialize", "hmap", 0, FALSE, "panicked", <<>>)
    /\ UNCHANGED <<hmap, fresh, fresh_pc>>
    /\ UNCHANGED notMapVars

\* fresh.deserialize(full)
FreshDeserialize(full) ==
    /\ fresh_pc # "failed"
    /\ LET r == HMDeserialize(fresh, disk, full)
       IN /\ fresh' = r.m
          /\ fresh_pc' = IF r.outcome = "false" THEN fresh_pc
                         ELSE IF r.outcome = "err" THEN "failed"
                         ELSE IF full THEN "full"
                         ELSE IF fresh_pc \in {"new", "lazy"} THEN "lazy"
                         ELSE "mixed"
          /\ map_op' = Op("deserialize", "fresh", 0, full, r.outcome, <<>>)
    /\ UNCHANGED <<hmap, hmap_pc, disk>>
    /\ UNCHANGED notMapVars

\* fresh.with(l, |v| v.clone())
FreshWith(l) ==
    /\ fresh_pc # "failed"
    /\ LET r == HMWith(fresh, disk, l)
       IN /\ fresh' = r.m
          /\ map_op' = [Op("with", "fresh", l, FALSE, r.outcome, r.value)
                           EXCEPT !.opened = OpensFile(fresh, l)]
    /\ UNCHANGED <<hmap, hmap_pc, fresh_pc, disk>>
    /\ UNCHANGED notMapVars

\* fresh.insert(l, v) on a map that has loaded something: from then on
\* fresh holds more than the files gave it.
FreshInsert(l, v) ==
    /\ fresh_pc \in {"lazy", "full", "mixed"}
    /\ fresh' = HMInsert(fresh, l, v)
    /\ fresh_pc' = "mixed"
    /\ map_op' = Op("insert", "fresh", l, FALSE, "unit", v)
    /\ UNCHANGED <<hmap, hmap_pc, disk>>
    /\ UNCHANGED notMapVars

InitMap ==
    /\ hmap = NewMap
    /\ hmap_pc = "building"
    /\ fresh = NewMap
    /\ fresh_pc = "new"
    /\ disk = [manifest |-> NoFile, parts |-> <<>>]
    /\ map_op = Op("new", "hmap", 0, FALSE, "unit", <<>>)

NextMap ==
    \/ \E l \in MapKeys, v \in Vecs : MapInsert(l, v)
    \/ \E l \in MapKeys, x \in VecElems : MapMutate(l, x)
    \/ MapMarkLoaded
    \/ MapSerialize
    \/ \E full \in BOOLEAN : FreshDeserialize(full)
    \/ \E l \in MapKeys : FreshWith(l)
    \/ \E l \in FreshKeys, v \in FreshVecs : FreshInsert(l, v)

(***************************************************************************)
(* HierarchicalMap: what the claims are measured against                   *)
(***************************************************************************)
\* The (short key, key, value) triples a map holds in memory.
Triples(m) ==
    {<<k, l, m.map[k][l]>> : <<k, l>> \in
        {kl \in (DOMAIN m.map) \X MapKeys : kl[2] \in DOMAIN m.map[kl[1]]}}

\* What with returns, without its effect on the map.
WithReturn(m, l) ==
    LET r == HMWith(m, disk, l) IN <<r.outcome, r.value>>

\* C6: after serialize, deserialize(full = true) on a fresh map gives it the
\* triples of the serialised map and marks it fully loaded.
C6_RoundTrip ==
    (fresh_pc = "full") =>
        /\ hmap_pc = "saved"
        /\ fresh.fully_loaded
        /\ Triples(fresh) = Triples(hmap)
        /\ DOMAIN fresh.map = DOMAIN hmap.map

\* A map with three keys in one partition and a key in another came back.
C6_Witness ==
    /\ fresh_pc = "full"
    /\ map_op.name = "deserialize" /\ map_op.outcome = "true"
    /\ Cardinality(Triples(fresh)) = 4
    /\ Cardinality(DOMAIN fresh.map) = 2
    /\ \E t \in Triples(fresh) : t[3] # <<>>

\* C7: after deserialize(full = false) alone every manifest short key has an
\* empty partition in memory, and with on the lazily loaded map returns what
\* with returns on the serialised map, for stored and absent keys alike.
C7_LazyEquivalent ==
    /\ (fresh_pc = "lazy" /\ map_op.name = "deserialize" /\ map_op.outcome = "true") =>
          /\ DOMAIN fresh.map = DOMAIN hmap.map
          /\ \A k \in DOMAIN fresh.map : DOMAIN fresh.map[k] = {}
    /\ (fresh_pc = "lazy") =>
          /\ ~fresh.fully_loaded
          /\ \A l \in MapKeys : WithReturn(fresh, l) = WithReturn(hmap, l)
    /\ (fresh_pc = "lazy" /\ map_op.name = "with") =>
          <<map_op.outcome, map_op.value>> = WithReturn(hmap, map_op.key)

\* with read the last key of a three-entry partition file from the disk
\* while the first key was not in memory.
C7_Witness ==
    /\ fresh_pc = "lazy"
    /\ map_op.name = "with" /\ map_op.outcome = "some"
    /\ map_op.key = KeyAt(3)
    /\ Cardinality(DOMAIN hmap.map[IdShortKey(KeyAt(1))]) = 3
    /\ KeyAt(1) \notin DOMAIN fresh.map[IdShortKey(KeyAt(1))]

\* No call on a map ends in a panic or a hang of find_entry_in_file.
MapSearchReturns == map_op.name = "with" => map_op.outcome \in {"some", "none"}

\* l has an entry in memory.
InMemory(m, l) ==
    IdShortKey(l) \in DOMAIN m.map /\ l \in DOMAIN m.map[IdShortKey(l)]

\* The (key, value) pairs on the lines of the partition file of short_key;
\* none when there is no such file.
FileEntries(d, short_key) ==
    IF PartName(short_key) \notin DOMAIN d.parts THEN {}
    ELSE LET lines == LinesOf(d.parts[PartName(short_key)])
         IN {<<JsonKey(lines[i]), JsonValue(lines[i])>> : i \in 1..Len(lines)}

OnDisk(d, l) == \E e \in FileEntries(d, IdShortKey(l)) : e[1] = l

\* The step is fresh.with(l, ..).
WithStep(l) == map_op'.name = "with" /\ map_op'.key = l /\ FreshWith(l)

\* The step is fresh.deserialize(full).
DeserializeStep(full) ==
    map_op'.name = "deserialize" /\ map_op'.full = full /\ FreshDeserialize(full)

\* The step is hmap.serialize().
SerializeStep == map_op'.name = "serialize" /\ MapSerialize

\* C12: with on a key that is not in memory: when fully_loaded is set it
\* returns None, opens no partition file and leaves the map as it was, even
\* if the key is on the disk; when the flag is clear it goes to the partition
\* file of the key's short key and finds the key exactly if it is there.
C12_LoadedMissDefinitive ==
    [][\A l \in MapKeys :
         (WithStep(l) /\ ~InMemory(fresh, l)) =>
            IF fresh.fully_loaded
            THEN /\ map_op'.outcome = "none"
                 /\ ~map_op'.opened
                 /\ fresh' = fresh
            ELSE /\ map_op'.opened
                 /\ (map_op'.outcome = "some") <=> OnDisk(disk, l)]_vars

\* with returned None from a fully loaded map for a key that is on the disk
\* and not in memory.
C12_Witness ==
    /\ map_op.name = "with" /\ map_op.outcome = "none" /\ ~map_op.opened
    /\ fresh.fully_loaded
    /\ ~InMemory(fresh, map_op.key)
    /\ OnDisk(disk, map_op.key)

\* C13: with returns Some(v) only for a v stored under the key in memory or
\* in the partition file of its short key; after a hit on the disk the pair
\* is in memory, so that the next with opens no file; without a partition
\* file a miss in memory gives None.
C13_NeverFabricates ==
    [][\A l \in MapKeys :
         WithStep(l) =>
            /\ (map_op'.outcome = "some") =>
                  \/ InMemory(fresh, l) /\ fresh.map[IdShortKey(l)][l] = map_op'.value
                  \/ <<l, map_op'.value>> \in FileEntries(disk, IdShortKey(l))
            /\ (map_op'.outcome = "some" /\ map_op'.opened) =>
                  /\ InMemory(fresh', l)
                  /\ fresh'.map[IdShortKey(l)][l] = map_op'.value
                  /\ ~OpensFile(fresh', l)
            /\ (~InMemory(fresh, l) /\ PartName(IdShortKey(l)) \notin DOMAIN disk.parts) =>
                  map_op'.outcome = "none"]_vars

\* with found a non-empty value on the disk and now holds it in memory.
C13_Witness ==
    /\ map_op.name = "with" /\ map_op.outcome = "some" /\ map_op.opened
    /\ map_op.value # <<>>
    /\ InMemory(fresh, map_op.key)
    /\ ~fresh.fully_loaded

\* C14: deserialize returns false exactly when there is no manifest file and
\* then changes nothing; deserialize(true) that succeeds sets fully_loaded;
\* deserialize(false) leaves the flag as it was (clear on a new map) and
\* leaves an empty partition for every short key the manifest lists.
C14_DeserializeOutcome ==
    [][\A full \in BOOLEAN :
         DeserializeStep(full) =>
            /\ (map_op'.outcome = "false") <=> ~disk.manifest.exists
            /\ (map_op'.outcome = "false") => fresh' = fresh
            /\ (full /\ map_op'.outcome = "true") => fresh'.fully_loaded
            /\ (~full /\ map_op'.outcome = "true") =>
                  /\ fresh'.fully_loaded = fresh.fully_loaded
                  /\ (fresh_pc = "new") => ~fresh'.fully_loaded
                  /\ \A k \in DOMAIN hmap.map :
                        k \in DOMAIN fresh'.map /\ DOMAIN fresh'.map[k] = {}]_vars

\* deserialize(false) gave a new map two empty partitions.
C14_Witness ==
    /\ map_op.name = "deserialize" /\ ~map_op.full /\ map_op.outcome = "true"
    /\ fresh_pc = "lazy"
    /\ Cardinality(DOMAIN fresh.map) = 2
    /\ ~fresh.fully_loaded
    /\ Triples(hmap) # {}

\* Keys of the lines of a partition file, in file order.
FileKeys(bytes) == [i \in 1..Len(LinesOf(bytes)) |-> JsonKey(LinesOf(bytes)[i])]

\* C15: serialize on a map that is not fully loaded fails and writes nothing;
\* on a fully loaded map the manifest lists the short keys in memory and no
\* others, and every partition file holds one [key, value] line per entry,
\* keys strictly ascending.
C15_SerializeLayout ==
    [][SerializeStep =>
         IF ~hmap.fully_loaded
         THEN disk' = disk /\ map_op'.outcome = "panicked"
         ELSE /\ Range(ParseArray(disk'.manifest.bytes)) = DOMAIN hmap.map
              /\ Len(ParseArray(disk'.manifest.bytes)) = Cardinality(DOMAIN hmap.map)
              /\ \A k \in DOMAIN hmap.map :
                    LET keys == FileKeys(disk'.parts[PartName(k)])
                    IN /\ Len(keys) = Cardinality(DOMAIN hmap.map[k])
                       /\ \A i \in 1..(Len(keys) - 1) : keys[i] < keys[i + 1]
                       /\ FileEntries(disk', k)
                              = {<<l, hmap.map[k][l]>> : l \in DOMAIN hmap.map[k]}]_vars

\* serialize wrote a partition of three entries and another partition.
C15_Witness ==
    /\ hmap_pc = "saved"
    /\ map_op.name = "serialize"
    /\ Cardinality(DOMAIN hmap.map) = 2
    /\ \E k \in DOMAIN hmap.map : Len(FileKeys(disk.parts[PartName(k)])) = 3

\* Every key of every partition of m has the partition's short key.
PartitionInv(m) ==
    \A k \in DOMAIN m.map : \A l \in DOMAIN m.map[k] : IdShortKey(l) = k

\* C16: whatever insert, mutate_with_default, with and deserialize calls were
\* made, every key stored in the partition of short key k shortens to k.
C16_PartitionInvariant == PartitionInv(hmap) /\ PartitionInv(fresh)

\* A map that loaded lazily, memoised an entry from the disk and was given
\* another by insert.
C16_Witness ==
    /\ fresh_pc = "mixed"
    /\ ~fresh.fully_loaded
    /\ map_op.name = "with" /\ map_op.opened /\ map_op.outcome = "some"
    /\ Cardinality(Triples(fresh)) >= 2
    /\ Triples(fresh) # Triples(hmap)

(***************************************************************************)
(* generate_outgoing_links and generate_incoming_links                     *)
(***************************************************************************)
\* Number of article ids that pages and links are drawn from.
NumLinkIds == 3

\* Largest number of links stored in the outgoing map.
MaxLinkEdges == 3

\* Ids in two partitions: 257, 513, 2, ...
LinkIds == {KeyAt(i) : i \in 2..(NumLinkIds + 1)}

\* What .unique().collect::<Vec<_>>() can yield: lists without repetition.
UniqueLists ==
    {l \in UNION {[1..n -> LinkIds] : n \in 0..Min({NumLinkIds, MaxLinkEdges})} :
        \A i, j \in 1..Len(l) : l[i] = l[j] => i = j}

\* Largest number of links found in the text of one page.
MaxFound == 3

\* What title_map.get_id gives for a red link.
RedLink == 0

\* The links of a page in the order find_links meets them in its text, each
\* already looked up in the title map.
FoundLists == UNION {[1..n -> LinkIds \cup {RedLink}] : n \in 0..MaxFound}

\* filter_map, lines 62-68: the red links are dropped.
RECURSIVE BlueLinks(_)
BlueLinks(found) ==
    IF found = <<>> THEN <<>>
    ELSE IF Head(found) = RedLink THEN BlueLinks(Tail(found))
    ELSE <<Head(found)>> \o BlueLinks(Tail(found))

\* Itertools::unique, line 69: each id at its first occurrence.
Unique(list) ==
    LET firsts == {i \in 1..Len(list) : \A j \in 1..(i - 1) : list[j] # list[i]}
        at == SortedSeq(firsts)
    IN [i \in 1..Len(at) |-> list[at[i]]]

\* The closure given to page_stream, lines 50-72, from the lookups on.
OutgoingLinksOf(found) == Unique(BlueLinks(found))

\* The list stored under id in memory, empty when there is none.
StoredLinks(m, id) == ValueOrDefault(m, id)

LinkCount(m) ==
    LET count[S \in SUBSET LinkIds] ==
            IF S = {} THEN 0
            ELSE LET x == Min(S) IN Len(StoredLinks(m, x)) + count[S \ {x}]
    IN count[LinkIds]

\* A mutation of PartitionItems: the entries come in descending key order.
PartitionItemsDescending(inner) ==
    LET keys == SortedSeq(DOMAIN inner)
        n == Len(keys)
    IN [i \in 1..n |-> [id |-> keys[n + 1 - i], links |-> inner[keys[n + 1 - i]]]]

\* The entries of one partition in the order inner_map.iter() yields them,
\* each mapped by |id, links| (*id, links.to_owned()).
PartitionItems(inner) ==
    LET keys == SortedSeq(DOMAIN inner)
    IN [i \in 1..Len(keys) |-> [id |-> keys[i], links |-> inner[keys[i]]]]

\* with_all: everything the spawned thread sends, partition after partition.
WithAllItems(m) ==
    LET short_keys == SortedSeq(DOMAIN m.map)
    IN ConcatAll([i \in 1..Len(short_keys) |-> PartitionItems(m.map[short_keys[i]])])

NoItem == [id |-> 0, links |-> <<>>]

\* generate_outgoing_links, lines 50-79: the links of a page are collected
\* and map.insert(page, links) stores them.
OutgoingInsert(page, found) ==
    /\ links_pc = "outgoing"
    /\ LinkCount(HMInsert(links_outgoing, page, OutgoingLinksOf(found))) <= MaxLinkEdges
    /\ links_outgoing' = HMInsert(links_outgoing, page, OutgoingLinksOf(found))
    /\ UNCHANGED <<links_incoming, links_pc, links_tx, links_chan, links_rx,
                   links_received, links_disk>>
    /\ UNCHANGED notLinksVars

\* with_all on the map before mark_loaded: the assertion of line 237 fails.
WithAllNotLoaded ==
    /\ links_pc = "outgoing"
    /\ ~links_outgoing.fully_loaded
    /\ links_pc' = "panicked"
    /\ UNCHANGED <<links_outgoing, links_incoming, links_tx, links_chan, links_rx,
                   links_received, links_disk>>
    /\ UNCHANGED notLinksVars

\* The end of generate_outgoing_links (mark_loaded) and, in
\* generate_incoming_links, with_all on the fully loaded map: the thread is
\* spawned with the entries to send and the receiver is handed back.
IncomingBegin ==
    /\ links_pc = "outgoing"
    /\ links_outgoing' = [links_outgoing EXCEPT !.fully_loaded = TRUE]
    /\ links_tx' = WithAllItems(links_outgoing)
    /\ links_pc' = "incoming"
    /\ UNCHANGED <<links_incoming, links_chan, links_rx, links_received, links_disk>>
    /\ UNCHANGED notLinksVars

\* tx.send(f(key, value)) in the with_all thread: blocks while the channel
\* holds a message.
WithAllSend ==
    /\ links_pc = "incoming"
    /\ links_tx # <<>>
    /\ links_chan = <<>>
    /\ links_chan' = <<Head(links_tx)>>
    /\ links_tx' = Tail(links_tx)
    /\ UNCHANGED <<links_outgoing, links_incoming, links_pc, links_rx, links_received,
                   links_disk>>
    /\ UNCHANGED notLinksVars

\* while let Ok((id, links)) = rx.recv()
IncomingRecv ==
    /\ links_pc = "incoming"
    /\ links_rx.links = <<>>
    /\ links_chan # <<>>
    /\ links_rx' = Head(links_chan)
    /\ links_received' = Append(links_received, Head(links_chan))
    /\ links_chan' = <<>>
    /\ UNCHANGED <<links_outgoing, links_incoming, links_pc, links_tx, links_disk>>
    /\ UNCHANGED notLinksVars

\* map.mutate_with_default(link, |list| list.push(id)) for the next link
IncomingPush ==
    /\ links_pc = "incoming"
    /\ links_rx.links # <<>>
    /\ links_incoming' = HMMutatePush(links_incoming, Head(links_rx.links), links_rx.id)
    /\ links_rx' = [links_rx EXCEPT !.links = Tail(@)]
    /\ UNCHANGED <<links_outgoing, links_pc, links_tx, links_chan, links_received,
                   links_disk>>
    /\ UNCHANGED notLinksVars

\* rx.recv() fails once the thread has ended and the channel is drained;
\* then map.mark_loaded() and map.serialize().
IncomingFinish ==
    /\ links_pc = "incoming"
    /\ links_rx.links = <<>>
    /\ links_chan = <<>>
    /\ links_tx = <<>>
    /\ links_incoming' = [links_incoming EXCEPT !.fully_loaded = TRUE]
    /\ links_disk' = HMSerialize(links_incoming', links_disk)
    /\ links_pc' = "done"
    /\ UNCHANGED <<links_outgoing, links_tx, links_chan, links_rx, links_received>>
    /\ UNCHANGED notLinksVars

\* The caller of with_all lets go of the receiver while the thread still
\* has entries to send.  The message in the channel is lost.
IncomingDrop ==
    /\ links_pc = "incoming"
    /\ links_tx # <<>>
    /\ links_pc' = "dropped"
    /\ links_chan' = <<>>
    /\ UNCHANGED <<links_outgoing, links_incoming, links_tx, links_rx, links_received,
                   links_disk>>
    /\ UNCHANGED notLinksVars

\* tx.send(f(key, value))? with the receiver gone (hierarchical_map.rs line
\* 245): the thread of with_all ends with the SendError.
WithAllSendFails ==
    /\ links_pc = "dropped"
    /\ links_pc' = "stopped"
    /\ UNCHANGED <<links_outgoing, links_incoming, links_tx, links_chan, links_rx,
                   links_received, links_disk>>
    /\ UNCHANGED notLinksVars

\* The links command, run on the maps that generate_outgoing_links and
\* generate_incoming_links have just built, both fully loaded.
LinksCmd(id, outcome, outgoing, incoming) ==
    [id |-> id, outcome |-> outcome, outgoing |-> outgoing, incoming |-> incoming]

\* The files of a map that is fully loaded are not read.
NoDir == [manifest |-> NoFile, parts |-> <<>>]

\* execute(article), lines 20-34, for the article whose title_map.get_id is
\* id: the two with(&id, |val| val.clone()).unwrap() and the lines printed.
LinksExecute(id) ==
    /\ links_pc = "done"
    /\ LET out == HMWith(links_outgoing, NoDir, id)
           inc == HMWith(links_incoming, links_disk, id)
       IN  links_cmd' =
               IF out.outcome # "some"
               THEN LinksCmd(id, "panicked", <<>>, <<>>)
               ELSE IF inc.outcome # "some"
               THEN LinksCmd(id, "panicked", out.value, <<>>)
               ELSE LinksCmd(id, "listed", out.value, inc.value)
    /\ UNCHANGED notCmdVars

InitCmd == links_cmd = LinksCmd(0, "none", <<>>, <<>>)

InitLinks ==
    /\ links_outgoing = NewMap
    /\ links_incoming = NewMap
    /\ links_pc = "outgoing"
    /\ links_tx = <<>>
    /\ links_chan = <<>>
    /\ links_rx = NoItem
    /\ links_received = <<>>
    /\ links_disk = [manifest |-> NoFile, parts |-> <<>>]

NextLinks ==
    \/ \E page \in LinkIds, found \in FoundLists : OutgoingInsert(page, found)
    \/ WithAllNotLoaded
    \/ IncomingBegin
    \/ WithAllSend
    \/ IncomingRecv
    \/ IncomingPush
    \/ IncomingFinish
    \/ IncomingDrop
    \/ WithAllSendFails
    \/ \E id \in LinkIds : LinksExecute(id)

(***************************************************************************)
(* Links: what the claims are measured against                             *)
(***************************************************************************)
InList(x, list) == \E i \in 1..Len(list) : list[i] = x

\* C5: once generate_incoming_links has built the incoming map, y is in
\* outgoing[x] exactly when x is in incoming[y], for all ids x and y.
C5_AdjacencySymmetric ==
    (links_pc = "done") =>
        \A x, y \in LinkIds :
            InList(y, StoredLinks(links_outgoing, x))
                <=> InList(x, StoredLinks(links_incoming, y))

\* The keys a map holds in memory.
StoredIdsOf(m) == UNION {DOMAIN m.map[k] : k \in DOMAIN m.map}

\* An id with links from two pages of different partitions, one of which
\* links to two ids.
C5_Witness ==
    /\ links_pc = "done"
    /\ \E y \in LinkIds :
          \E x1, x2 \in LinkIds :
             /\ IdShortKey(x1) # IdShortKey(x2)
             /\ InList(x1, StoredLinks(links_incoming, y))
             /\ InList(x2, StoredLinks(links_incoming, y))
             /\ Len(StoredLinks(links_outgoing, x1)) >= 2

Ascending(list) == \A i \in 1..(Len(list) - 1) : list[i] < list[i + 1]

NoRepeats(list) == \A i, j \in 1..Len(list) : list[i] = list[j] => i = j

\* C22: every list stored by generate_outgoing_links is in ascending id
\* order and holds no id twice.
C22_SortedUnique ==
    \A id \in LinkIds :
        /\ Ascending(StoredLinks(links_outgoing, id))
        /\ NoRepeats(StoredLinks(links_outgoing, id))

\* Every stored list is one of the lists without repetition over the ids of
\* the title map.
OutgoingUnique ==
    \A id \in LinkIds : StoredLinks(links_outgoing, id) \in UniqueLists

\* The keys of the items of a sequence of sent entries.
ItemIds(items) == [i \in 1..Len(items) |-> items[i].id]

\* Ascending short key, then ascending key.
InPartitionOrder(ids) ==
    \A i \in 1..(Len(ids) - 1) :
       \/ IdShortKey(ids[i]) < IdShortKey(ids[i + 1])
       \/ IdShortKey(ids[i]) = IdShortKey(ids[i + 1]) /\ ids[i] < ids[i + 1]

\* C18: with_all fails on a map that is not fully loaded; on a fully loaded
\* map each entry in memory is sent once, in ascending short key and then
\* ascending key order, the channel never holds more than one item, and the
\* receiver has seen every entry when it finds the channel disconnected.
C18_WithAllComplete ==
    /\ (links_pc = "panicked") => ~links_outgoing.fully_loaded
    /\ (links_pc \in {"incoming", "done"}) =>
          LET sent == links_received \o links_chan \o links_tx
          IN /\ links_outgoing.fully_loaded
             /\ Len(links_chan) <= 1
             /\ InPartitionOrder(ItemIds(sent))
             /\ {sent[i].id : i \in 1..Len(sent)} = StoredIdsOf(links_outgoing)
             /\ Len(sent) = Cardinality(StoredIdsOf(links_outgoing))
             /\ \A i \in 1..Len(sent) :
                   sent[i].links = StoredLinks(links_outgoing, sent[i].id)
    /\ (links_pc = "done") =>
          /\ links_tx = <<>> /\ links_chan = <<>>
          /\ Len(links_received) = Cardinality(StoredIdsOf(links_outgoing))

\* The receiver saw three entries of two partitions and then the
\* disconnection.
C18_Witness ==
    /\ links_pc = "done"
    /\ Len(links_received) = 3
    /\ IdShortKey(links_received[1].id) # IdShortKey(links_received[3].id)

(***************************************************************************)
(* canonicalise_wikilink (titles.rs)                                       *)
(* A string is the sequence of its characters, each a one-character        *)
(* string. The characters of the model are ASCII letters and digits,       *)
(* ' ', '%', '&', ':', ';', '<', '>', '_', and the letters e-acute.        *)
(***************************************************************************)
Lower == <<"a", "b", "c", "d", "e", "f", "g", "h", "i", "j", "k", "l", "m",
           "n", "o", "p", "q", "r", "s", "t", "u", "v", "w", "x", "y", "z">>

Upper == <<"A", "B", "C", "D", "E", "F", "G", "H", "I", "J", "K", "L", "M",
           "N", "O", "P", "Q", "R", "S", "T", "U", "V", "W", "X", "Y", "Z">>

HexDigits == <<"0", "1", "2", "3", "4", "5", "6", "7", "8", "9",
               "A", "B", "C", "D", "E", "F">>

\* Code points of the characters other than ASCII letters and digits.
OtherCodes ==
    {<<32, " ">>, <<37, "%">>, <<38, "&">>, <<58, ":">>, <<59, ";">>,
     <<60, "<">>, <<62, ">">>, <<95, "_">>, <<201, "É">>, <<233, "é">>}

\* char::from_u32 on the code points of the model's characters.
CharOfCode(code) ==
    IF code \in 48..57 THEN Digits[code - 47]
    ELSE IF code \in 65..90 THEN Upper[code - 64]
    ELSE IF code \in 97..122 THEN Lower[code - 96]
    ELSE (CHOOSE p \in OtherCodes : p[1] = code)[2]

\* char::to_uppercase; every character of the model has a one-character
\* upper case.
CharToUppercase(c) ==
    IF \E i \in 1..26 : Lower[i] = c
    THEN Upper[CHOOSE i \in 1..26 : Lower[i] = c]
    ELSE IF c = "é" THEN "É" ELSE c

CharToLowercase(c) ==
    IF \E i \in 1..26 : Upper[i] = c
    THEN Lower[CHOOSE i \in 1..26 : Upper[i] = c]
    ELSE IF c = "É" THEN "é" ELSE c

\* str::to_lowercase
ToLowercase(str) == [i \in 1..Len(str) |-> CharToLowercase(str[i])]

\* str::trim: leading and trailing white space goes; ' ' is the white space
\* of the model, '_' is none.
RECURSIVE TrimStart(_)
TrimStart(str) ==
    IF str # <<>> /\ Head(str) = " " THEN TrimStart(Tail(str)) ELSE str

RECURSIVE TrimEnd(_)
TrimEnd(str) ==
    IF str # <<>> /\ Last(str) = " " THEN TrimEnd(SubSeq(str, 1, Len(str) - 1))
    ELSE str

Trim(str) == TrimEnd(TrimStart(str))

\* The match of lines 132-148: every arm maps the lower-case name of a
\* namespace to its canonical spelling.
NamespaceNames ==
    { <<"M", "a", "i", "n">>,
      <<"A", "r", "t", "i", "c", "l", "e">>,
      <<"U", "s", "e", "r">>,
      <<"W", "i", "k", "i", "p", "e", "d", "i", "a">>,
      <<"F", "i", "l", "e">>,
      <<"M", "e", "d", "i", "a", "W", "i", "k", "i">>,
      <<"T", "e", "m", "p", "l", "a", "t", "e">>,
      <<"H", "e", "l", "p">>,
      <<"C", "a", "t", "e", "g", "o", "r", "y">>,
      <<"P", "o", "r", "t", "a", "l">>,
      <<"D", "r", "a", "f", "t">>,
      <<"T", "i", "m", "e", "d", "T", "e", "x", "t">>,
      <<"M", "o", "d", "u", "l", "e">>,
      <<"S", "p", "e", "c", "i", "a", "l">>,
      <<"M", "e", "d", "i", "a">> }

NoNamespace == [some |-> FALSE, name |-> <<>>]

\* match namespace.trim().to_lowercase().as_str() { ... }
NamespaceOf(prefix) ==
    LET wanted == ToLowercase(Trim(prefix))
    IN IF \E n \in NamespaceNames : ToLowercase(n) = wanted
       THEN [some |-> TRUE,
             name |-> CHOOSE n \in NamespaceNames : ToLowercase(n) = wanted]
       ELSE NoNamespace

IsHex(c) == \E i \in 1..16 : HexDigits[i] = CharToUppercase(c)

HexVal(c) == (CHOOSE i \in 1..16 : HexDigits[i] = CharToUppercase(c)) - 1

CharUnit(c) == [byte |-> FALSE, c |-> c, b |-> 0]

ByteUnit(b) == [byte |-> TRUE, c |-> "", b |-> b]

\* percent_decode_str(input): a '%' followed by two hexadecimal digits
\* becomes the byte they spell; every other character stays as it is.
RECURSIVE PercentDecode(_)
PercentDecode(str) ==
    IF str = <<>> THEN <<>>
    ELSE IF /\ str[1] = "%"
            /\ Len(str) >= 3
            /\ IsHex(str[2])
            /\ IsHex(str[3])
         THEN <<ByteUnit(16 * HexVal(str[2]) + HexVal(str[3]))>>
                  \o PercentDecode(SubSeq(str, 4, Len(str)))
         ELSE <<CharUnit(str[1])>> \o PercentDecode(Tail(str))

Panicked == [ok |-> FALSE, s |-> <<>>]

Value(str) == [ok |-> TRUE, s |-> str]

\* String::from_utf8 on the decoded bytes: a character of the input is valid
\* on its own, a decoded byte below 0x80 is an ASCII character, a decoded
\* lead byte 0xC2..0xDF needs one decoded continuation byte 0x80..0xBF after
\* it; any other decoded byte makes the bytes invalid (the lead bytes of
\* longer sequences are not spelt by the model's inputs).
RECURSIVE FromUtf8(_)
FromUtf8(units) ==
    IF units = <<>> THEN Value(<<>>)
    ELSE LET u == units[1]
             width == IF ~u.byte \/ u.b < 128 THEN 1
                      ELSE IF /\ u.b \in 194..223
                              /\ Len(units) >= 2
                              /\ units[2].byte
                              /\ units[2].b \in 128..191
                           THEN 2 ELSE 0
         IN IF width = 0 THEN Panicked
            ELSE LET rest == FromUtf8(SubSeq(units, width + 1, Len(units)))
                     c == IF ~u.byte THEN u.c
                          ELSE IF width = 1 THEN CharOfCode(u.b)
                          ELSE CharOfCode((u.b - 192) * 64 + (units[2].b - 128))
                 IN IF rest.ok THEN Value(<<c>> \o rest.s) ELSE Panicked

IsPrefix(p, str) == Len(p) <= Len(str) /\ SubSeq(str, 1, Len(p)) = p

\* The named entities of the model: &amp; &lt; &gt;
HtmlEntities ==
    { [name |-> <<"&", "a", "m", "p", ";">>, c |-> "&"],
      [name |-> <<"&", "l", "t", ";">>, c |-> "<"],
      [name |-> <<"&", "g", "t", ";">>, c |-> ">"] }

\* html_escape::decode_html_entities, one pass from left to right.
RECURSIVE DecodeHtmlEntities(_)
DecodeHtmlEntities(str) ==
    IF str = <<>> THEN <<>>
    ELSE IF \E e \in HtmlEntities : IsPrefix(e.name, str)
         THEN LET e == CHOOSE e \in HtmlEntities : IsPrefix(e.name, str)
              IN <<e.c>> \o DecodeHtmlEntities(SubSeq(str, Len(e.name) + 1, Len(str)))
         ELSE <<str[1]>> \o DecodeHtmlEntities(Tail(str))

\* str::replace("_", " ")
ReplaceUnderscores(str) == [i \in 1..Len(str) |-> IF str[i] = "_" THEN " " ELSE str[i]]

\* str::split(' '): the pieces between the spaces, empty pieces included.
RECURSIVE SplitSpaces(_)
SplitSpaces(str) ==
    LET at == IndexOf(str, " ")
    IN IF at = 0 THEN <<str>>
       ELSE <<SubSeq(str, 1, at - 1)>> \o SplitSpaces(SubSeq(str, at + 1, Len(str)))

\* [&str]::join(" ")
RECURSIVE JoinSpaces(_)
JoinSpaces(parts) ==
    IF Len(parts) = 0 THEN <<>>
    ELSE IF Len(parts) = 1 THEN parts[1]
    ELSE parts[1] \o <<" ">> \o JoinSpaces(Tail(parts))

\* input.split_once(':') and the choice of namespace and remaining input.
SplitNamespace(input) ==
    LET at == IndexOf(input, ":")
        namespace == IF at = 0 THEN NoNamespace
                     ELSE NamespaceOf(SubSeq(input, 1, at - 1))
    IN IF namespace.some
       THEN [namespace |-> namespace, input |-> SubSeq(input, at + 1, Len(input))]
       ELSE [namespace |-> NoNamespace, input |-> input]

\* canonicalise_wikilink: the String returned, or the panic of one of the
\* two unwrap calls.
CanonicaliseWikilink(whole) ==
    LET split == SplitNamespace(whole)
        input == split.input
        utf8 == FromUtf8(PercentDecode(input))
    IN IF ~utf8.ok THEN Panicked
       ELSE LET unescaped == DecodeHtmlEntities(utf8.s)
            IN IF unescaped = <<>> THEN Panicked
               ELSE LET title_case == <<CharToUppercase(unescaped[1])>> \o Tail(input)
                        no_underscores ==
                            JoinSpaces(SplitSpaces(ReplaceUnderscores(title_case)))
                    IN IF split.namespace.some
                       THEN Value(split.namespace.name \o <<":">> \o no_underscores)
                       ELSE Value(no_underscores)

\* Largest number of pieces an input is put together from.
MaxTokens == 4

\* The pieces inputs are put together from: a namespace name, separators,
\* a letter, percent-escapes of 'A' and of the two bytes of e-acute, an
\* HTML entity and a non-ASCII letter.
CanonTokens ==
    { <<"h", "e", "l", "p">>, <<":">>, <<"_">>, <<" ">>, <<"x">>,
      <<"%", "4", "1">>, <<"%", "C", "3">>, <<"%", "A", "9">>,
      <<"&", "a", "m", "p", ";">>, <<"é">> }

\* The caller's string grows by one piece.
CanonAppend(token) ==
    /\ canon_pc = "input"
    /\ canon_tokens < MaxTokens
    /\ canon_input' = canon_input \o token
    /\ canon_tokens' = canon_tokens + 1
    /\ UNCHANGED <<canon_once, canon_twice, canon_pc>>
    /\ UNCHANGED notCanonVars

\* canonicalise_wikilink(input)
CanonFirst ==
    /\ canon_pc = "input"
    /\ canon_once' = CanonicaliseWikilink(canon_input)
    /\ canon_pc' = "once"
    /\ UNCHANGED <<canon_input, canon_tokens, canon_twice>>
    /\ UNCHANGED notCanonVars

\* canonicalise_wikilink of the string the first call returned
CanonSecond ==
    /\ canon_pc = "once"
    /\ canon_once.ok
    /\ canon_twice' = CanonicaliseWikilink(canon_once.s)
    /\ canon_pc' = "twice"
    /\ UNCHANGED <<canon_input, canon_tokens, canon_once>>
    /\ UNCHANGED notCanonVars

InitCanon ==
    /\ canon_input = <<>>
    /\ canon_tokens = 0
    /\ canon_once = Value(<<>>)
    /\ canon_twice = Value(<<>>)
    /\ canon_pc = "input"

NextCanon ==
    \/ \E token \in CanonTokens : CanonAppend(token)
    \/ CanonFirst
    \/ CanonSecond

(***************************************************************************)
(* canonicalise_wikilink: what the claims are measured against             *)
(***************************************************************************)
\* C10: for every input, canonicalise_wikilink returns, and applied to its
\* own result it returns that result again.
C10_Idempotent ==
    /\ (canon_pc = "once") => canon_once.ok
    /\ (canon_pc = "twice") => (canon_twice.ok /\ canon_twice.s = canon_once.s)

\* The second call returned a string other than the one it was given.
CanonChangedTwice ==
    canon_pc = "twice" /\ canon_twice.ok /\ canon_twice.s # canon_once.s

\* The second call panicked on a string the first call returned.
CanonPanickedTwice == canon_pc = "twice" /\ ~canon_twice.ok

\* The remainder after the namespace, decoded as a whole (percent-escapes,
\* then entities), its first character upper-cased, underscores as spaces,
\* behind the canonical namespace.
DecodedThenTitled(whole) ==
    LET split == SplitNamespace(whole)
        decoded == DecodeHtmlEntities(FromUtf8(PercentDecode(split.input)).s)
        body == ReplaceUnderscores(<<CharToUppercase(decoded[1])>> \o Tail(decoded))
    IN IF split.namespace.some THEN split.namespace.name \o <<":">> \o body ELSE body

\* C11: canon("help:foo_bar") = "Help:Foo bar", canon("notanamespace:foo") =
\* "Notanamespace:foo", canon("%C3%A9cole") = "École", and every returned
\* string is the remainder decoded as a whole and then title-cased.
C11_Results ==
    /\ CanonicaliseWikilink(<<"h", "e", "l", "p", ":", "f", "o", "o", "_", "b", "a", "r">>)
           = Value(<<"H", "e", "l", "p", ":", "F", "o", "o", " ", "b", "a", "r">>)
    /\ CanonicaliseWikilink(<<"n", "o", "t", "a", "n", "a", "m", "e", "s", "p", "a", "c", "e",
                              ":", "f", "o", "o">>)
           = Value(<<"N", "o", "t", "a", "n", "a", "m", "e", "s", "p", "a", "c", "e",
                     ":", "f", "o", "o">>)
    /\ CanonicaliseWikilink(<<"%", "C", "3", "%", "A", "9", "c", "o", "l", "e">>)
           = Value(<<"É", "c", "o", "l", "e">>)
    /\ (canon_pc = "once" /\ canon_once.ok) =>
           canon_once.s = DecodedThenTitled(canon_input)

\* The two results of C11 that need no decoding.
PlainResults ==
    /\ CanonicaliseWikilink(<<"h", "e", "l", "p", ":", "f", "o", "o", "_", "b", "a", "r">>)
           = Value(<<"H", "e", "l", "p", ":", "F", "o", "o", " ", "b", "a", "r">>)
    /\ CanonicaliseWikilink(<<"n", "o", "t", "a", "n", "a", "m", "e", "s", "p", "a", "c", "e",
                              ":", "f", "o", "o">>)
           = Value(<<"N", "o", "t", "a", "n", "a", "m", "e", "s", "p", "a", "c", "e",
                     ":", "f", "o", "o">>)

\* What canonicalise_wikilink returns for "%C3%A9cole".
EcoleResult ==
    CanonicaliseWikilink(<<"%", "C", "3", "%", "A", "9", "c", "o", "l", "e">>)
        = Value(<<"É", "C", "3", "%", "A", "9", "c", "o", "l", "e">>)

(***************************************************************************)
(* TitleMap (titles.rs)                                                    *)
(***************************************************************************)
\* Number of page ids given to insert.
NumTitleIds == 3

\* Largest number of insert calls.
MaxInserts == 3

TitleIds == {KeyAt(i) : i \in 1..NumTitleIds}

\* The titles given to insert and get_id.
TitleInputs ==
    { <<"a">>, <<"A">>, <<"b">>, <<"a", "_", "b">>,
      <<"_", "h", "e", "l", "p", ":", "x">>, <<"h", "e", "l", "p", ":", "x">> }

IsAsciiAlphabetic(c) == \E i \in 1..26 : Lower[i] = c \/ Upper[i] = c

\* chars().filter(..): the characters of str that are ASCII letters.
RECURSIVE AsciiLetters(_)
AsciiLetters(str) ==
    IF str = <<>> THEN <<>>
    ELSE IF IsAsciiAlphabetic(str[1]) THEN <<str[1]>> \o AsciiLetters(Tail(str))
    ELSE AsciiLetters(Tail(str))

\* title_short_key: the first two ASCII letters after the first ':', in
\* upper case, or "other".
TitleShortKey(title) ==
    LET at == IndexOf(title, ":")
        suffix == IF at = 0 THEN title ELSE SubSeq(title, at + 1, Len(title))
        letters == AsciiLetters(suffix)
        short_key == [i \in 1..Min({2, Len(letters)}) |-> CharToUppercase(letters[i])]
    IN IF short_key = <<>> THEN <<"o", "t", "h", "e", "r">> ELSE short_key

\* TitleMap::default
NewTitleMap == [id_to_title |-> NewMap, title_to_id |-> NewMap]

\* HierarchicalMap::with(key, clone) while the map has no partition file on
\* the disk (nothing is serialised before mark_loaded): the entry in memory,
\* else None, be it at line 202 or at line 209.
WithAt(m, short_key, l) ==
    IF short_key \in DOMAIN m.map /\ l \in DOMAIN m.map[short_key]
    THEN [outcome |-> "some", value |-> m.map[short_key][l]]
    ELSE [outcome |-> "none", value |-> <<>>]

\* TitleMap::get_title
GetTitle(tm, id) == WithAt(tm.id_to_title, IdShortKey(id), id)

\* TitleMap::get_id: the title is canonicalised before it is looked up.
GetId(tm, title) ==
    LET canon == CanonicaliseWikilink(title)
    IN IF ~canon.ok THEN [outcome |-> "panicked", value |-> 0]
       ELSE LET r == WithAt(tm.title_to_id, TitleShortKey(canon.s), canon.s)
            IN IF r.outcome = "some" THEN r ELSE [outcome |-> "none", value |-> 0]

\* TitleMap::insert past the canonicalisation of the title
TMInsert(tm, id, title) ==
    [id_to_title |-> InsertAt(tm.id_to_title, IdShortKey(id), id, title),
     title_to_id |-> InsertAt(tm.title_to_id, TitleShortKey(title), title, id)]

TitleOp(name, id, title, outcome) ==
    [name |-> name, id |-> id, title |-> title, outcome |-> outcome]

\* title_map.insert(id, title)
TitleInsert(id, title) ==
    /\ title_pc = "inserting"
    /\ title_inserts < MaxInserts
    /\ title_inserts' = title_inserts + 1
    /\ LET canon == CanonicaliseWikilink(title)
       IN IF canon.ok
          THEN /\ title_map' = TMInsert(title_map, id, canon.s)
               /\ title_pc' = title_pc
               /\ title_op' = TitleOp("insert", id, canon.s, "unit")
          ELSE /\ title_map' = title_map
               /\ title_pc' = "panicked"
               /\ title_op' = TitleOp("insert", id, title, "panicked")
    /\ UNCHANGED notTitleVars

\* title_map.mark_loaded()
TitleMarkLoaded ==
    /\ title_pc = "inserting"
    /\ title_map' = [id_to_title |-> [title_map.id_to_title EXCEPT !.fully_loaded = TRUE],
                     title_to_id |-> [title_map.title_to_id EXCEPT !.fully_loaded = TRUE]]
    /\ title_pc' = "loaded"
    /\ title_op' = TitleOp("mark_loaded", 0, <<>>, "unit")
    /\ UNCHANGED title_inserts
    /\ UNCHANGED notTitleVars

\* title_map.get_title(id)
TitleGetTitle(id) ==
    /\ title_pc # "panicked"
    /\ LET r == GetTitle(title_map, id)
       IN title_op' = TitleOp("get_title", id, r.value, r.outcome)
    /\ UNCHANGED <<title_map, title_inserts, title_pc>>
    /\ UNCHANGED notTitleVars

\* title_map.get_id(title)
TitleGetId(title) ==
    /\ title_pc # "panicked"
    /\ LET r == GetId(title_map, title)
       IN title_op' = TitleOp("get_id", r.value, title, r.outcome)
    /\ UNCHANGED <<title_map, title_inserts, title_pc>>
    /\ UNCHANGED notTitleVars

InitTitle ==
    /\ title_map = NewTitleMap
    /\ title_inserts = 0
    /\ title_pc = "inserting"
    /\ title_op = TitleOp("default", 0, <<>>, "unit")

\* The keys of title_to_id and of id_to_title.
StoredTitles(tm) ==
    UNION {DOMAIN tm.title_to_id.map[k] : k \in DOMAIN tm.title_to_id.map}

StoredIds(tm) ==
    UNION {DOMAIN tm.id_to_title.map[k] : k \in DOMAIN tm.id_to_title.map}

NextTitle ==
    \/ \E id \in TitleIds, title \in TitleInputs : TitleInsert(id, title)
    \/ TitleMarkLoaded
    \/ \E id \in TitleIds : TitleGetTitle(id)
    \/ \E title \in TitleInputs : TitleGetId(title)

(***************************************************************************)
(* TitleMap: what the claims are measured against                          *)
(***************************************************************************)
\* C9: after any inserts, get_id(get_title(id)) is id for every stored id
\* and get_title(get_id(t)) is t for every stored title t.
C9_Bijection ==
    (title_pc # "panicked") =>
        /\ \A id \in StoredIds(title_map) :
              /\ GetTitle(title_map, id).outcome = "some"
              /\ GetId(title_map, GetTitle(title_map, id).value)
                     = [outcome |-> "some", value |-> id]
        /\ \A t \in StoredTitles(title_map) :
              /\ GetId(title_map, t).outcome = "some"
              /\ GetTitle(title_map, GetId(title_map, t).value)
                     = [outcome |-> "some", value |-> t]

\* The inserts so far gave every id and every canonical title once, and
\* every stored title canonicalises to itself.
TitleMapInjective ==
    /\ \A t \in StoredTitles(title_map) : CanonicaliseWikilink(t) = Value(t)
    /\ Cardinality(StoredIds(title_map)) = title_inserts
    /\ Cardinality(StoredTitles(title_map)) = title_inserts

\* Under those conditions the two directions do agree.
BijectionWhenInjective == TitleMapInjective => C9_Bijection

(***************************************************************************)
(* memoise (memoise.rs), with T = u64                                      *)
(***************************************************************************)
\* Largest number of calls of memoise.
MaxMemoCalls == 3

MemoKeys == {"article_count", "other_key"}

\* The results the producer can give.
MemoValues == {0, 7, 12}

\* A mutation of MemoFileName: the gz flag does not change the name.
MemoFileNamePlain(cache_key, gz) == <<cache_key, ".json">>

\* format!("data/{key}.json{}", if gz { ".gz" } else { "" })
MemoFileName(cache_key, gz) == <<cache_key, IF gz THEN ".json.gz" ELSE ".json">>

MemoFileNames == {MemoFileName(cache_key, gz) : cache_key \in MemoKeys, gz \in BOOLEAN}

\* The first byte of a gzip stream, standing for its header and trailer.
GzMagic == "\\x1f"

\* serde_json::to_writer(&result), through GzEncoder when gz is set.
MemoEncode(gz, value) ==
    IF gz THEN <<GzMagic>> \o ToDigits(value) ELSE ToDigits(value)

\* serde_json::from_reader, through GzDecoder when gz is set: the value, or
\* the error of a file that is no gzip stream or holds no JSON number.
MemoDecode(gz, bytes) ==
    LET json == IF gz THEN (IF bytes # <<>> /\ Head(bytes) = GzMagic
                            THEN Tail(bytes) ELSE <<>>)
                ELSE bytes
    IN IF json # <<>> /\ \A i \in 1..Len(json) : json[i] \in DigitChars
       THEN [ok |-> TRUE, value |-> FromDigits(json)]
       ELSE [ok |-> FALSE, value |-> 0]

MemoOp(name, outcome, value, existed, produced, after) ==
    [name |-> name, outcome |-> outcome, value |-> value, existed |-> existed,
     produced |-> produced, after_success |-> after]

NoValue == [some |-> FALSE, value |-> 0]

\* memoise(key, _, gz, f) from call to return. f returns Ok(value) when
\* f_ok and an error otherwise; persisted tells whether the file written
\* after File::create is completed: if not, the call ends without a value
\* and leaves the file it created empty.
Memoise(cache_key, gz, value, f_ok, persisted) ==
    /\ memo_calls < MaxMemoCalls
    /\ memo_calls' = memo_calls + 1
    /\ LET name == MemoFileName(cache_key, gz)
           cached == memo_files[name]
           after == memo_first[name].some
       IN IF cached.exists
          THEN LET decoded == MemoDecode(gz, cached.bytes)
               IN /\ memo_files' = memo_files
                  /\ memo_op' = MemoOp(name, IF decoded.ok THEN "ok" ELSE "err",
                                       decoded.value, TRUE, FALSE, after)
                  /\ memo_first' = IF decoded.ok /\ ~after
                                   THEN [memo_first EXCEPT ![name] =
                                            [some |-> TRUE, value |-> decoded.value]]
                                   ELSE memo_first
          ELSE IF ~f_ok
          THEN /\ memo_files' = memo_files
               /\ memo_first' = memo_first
               /\ memo_op' = MemoOp(name, "err", 0, FALSE, TRUE, after)
          ELSE IF ~persisted
          THEN /\ memo_files' = [memo_files EXCEPT ![name] =
                                    [exists |-> TRUE, bytes |-> <<>>]]
               /\ memo_first' = memo_first
               /\ memo_op' = MemoOp(name, "err", 0, FALSE, TRUE, after)
          ELSE /\ memo_files' = [memo_files EXCEPT ![name] =
                                    [exists |-> TRUE, bytes |-> MemoEncode(gz, value)]]
               /\ memo_first' = IF after THEN memo_first
                                ELSE [memo_first EXCEPT ![name] =
                                         [some |-> TRUE, value |-> value]]
               /\ memo_op' = MemoOp(name, "ok", value, FALSE, TRUE, after)
    /\ UNCHANGED notMemoVars

InitMemo ==
    /\ memo_files = [name \in MemoFileNames |-> NoFile]
    /\ memo_first = [name \in MemoFileNames |-> NoValue]
    /\ memo_calls = 0
    /\ memo_op = MemoOp(<<"", "">>, "none", 0, FALSE, FALSE, FALSE)

NextMemo ==
    \E cache_key \in MemoKeys, gz \in BOOLEAN, value \in MemoValues,
       f_ok \in BOOLEAN, persisted \in BOOLEAN :
        Memoise(cache_key, gz, value, f_ok, persisted)

NumShards == 2

\* The largest page id asked for; the ids start at 0.
MaxPageId == 6

Shards == 1..NumShards

PageIds == 0..MaxPageId

\* Lines 39-47: the ids a shard spans, parsed from the suffix of its url
\* (p1p2 and p4p5 here, so that 0, 3 and 6 are in no shard).
ShardStart(shard) == 3 * shard - 2

ShardEnd(shard) == 3 * shard - 1

ShardIds(shard) == ShardStart(shard)..ShardEnd(shard)

\* A shard on disk: whether its two files can be opened, the ids its index
\* lists and the ids of the pages in its block.
ShardFiles ==
    UNION {[readable : BOOLEAN, indexed : SUBSET ShardIds(shard),
            block : SUBSET ShardIds(shard)] : shard \in Shards}

Dumps ==
    {d \in [status_ok : BOOLEAN, shards : [Shards -> ShardFiles]] :
        \A shard \in Shards :
            d.shards[shard].indexed \cup d.shards[shard].block \subseteq ShardIds(shard)}

\* Line 49.
InShardRange(shard, id) == ShardStart(shard) <= id /\ id <= ShardEnd(shard)

\* The loop of lines 34-86 from article file number shard on, and the
\* statement after it: "ok" when the page is found in the block its index
\* line names, "err" when a file of the shard cannot be opened, "panicked"
\* when the loop runs out of files (line 87).
RECURSIVE ScanShards(_, _, _)
ScanShards(d, shard, id) ==
    IF shard > NumShards THEN "panicked"
    ELSE IF ~InShardRange(shard, id) THEN ScanShards(d, shard + 1, id)
    ELSE IF ~d.shards[shard].readable THEN "err"
    ELSE IF id \in d.shards[shard].indexed /\ id \in d.shards[shard].block THEN "ok"
    ELSE ScanShards(d, shard + 1, id)

\* page_information(id, |page| page.id): get_dump_status()? first.
PageInformationOf(d, id) ==
    IF ~d.status_ok THEN "err" ELSE ScanShards(d, 1, id)

PageOp(id, outcome) == [id |-> id, outcome |-> outcome]

\* The files under data/ are what the download left there.
PageDump(d) ==
    /\ page_pc = "download"
    /\ page_dump' = d
    /\ page_pc' = "ready"
    /\ UNCHANGED page_op
    /\ UNCHANGED notPageVars

PageInformation(id) ==
    /\ page_pc = "ready"
    /\ LET outcome == PageInformationOf(page_dump, id)
       IN /\ page_op' = PageOp(id, outcome)
          /\ page_pc' = IF outcome = "panicked" THEN "panicked" ELSE "ready"
    /\ UNCHANGED page_dump
    /\ UNCHANGED notPageVars

NoDump ==
    [status_ok |-> FALSE,
     shards |-> [shard \in Shards |-> [readable |-> FALSE, indexed |-> {}, block |-> {}]]]

InitPage ==
    /\ page_dump = NoDump
    /\ page_pc = "download"
    /\ page_op = PageOp(0, "none")

NextPage ==
    \/ \E d \in Dumps : PageDump(d)
    \/ \E id \in PageIds : PageInformation(id)

(***************************************************************************)
(* page_information: what the claims are measured against                  *)
(***************************************************************************)
InSomeRange(id) == \E shard \in Shards : InShardRange(shard, id)

HasIndexEntry(d, id) == \E shard \in Shards : id \in d.shards[shard].indexed

Called == page_op.outcome # "none"

\* C19: page_information returns an error value, and does not crash, when
\* the id is in no shard's range, and when it is in a range but the index
\* has no entry for it.
C19_ErrorNotCrash ==
    /\ (Called /\ ~InSomeRange(page_op.id)) => page_op.outcome = "err"
    /\ (Called /\ InSomeRange(page_op.id) /\ ~HasIndexEntry(page_dump, page_op.id))
           => page_op.outcome = "err"

\* What the function does in the two cases once the dump status is read and
\* the shard's files open: it panics.
PanicsWhenNotFound ==
    (/\ Called
     /\ page_dump.status_ok
     /\ \A shard \in Shards : page_dump.shards[shard].readable
     /\ ~(InSomeRange(page_op.id) /\ HasIndexEntry(page_dump, page_op.id)))
        => page_op.outcome = "panicked" /\ page_pc = "panicked"

(***************************************************************************)
(* page_stream (page.rs) and generate_outgoing_links (links.rs)            *)
(***************************************************************************)
\* Pages in each article file.
PagesPerShard == 3

\* bounded(capacity)
StreamCapacity == 1

\* The id of the page at a position of a shard, and what `information`
\* makes of it: the page and its links.
StreamPageId(shard, pos) == KeyAt((shard - 1) * PagesPerShard + pos)

StreamItem(shard, pos) == <<StreamPageId(shard, pos), <<StreamPageId(1, 1)>>>>

\* count_articles(..).total(): the pages of all shards.
NumArticles == NumShards * PagesPerShard

\* The cutoffs: those below the number of articles, the number itself and
\* one above it, which stands for the u64::MAX of generate_title_map and
\* generate_outgoing_links.
Cutoffs == 0..(NumArticles + 1)

\* Lines 103-111: max.
StreamMaxOf(cutoff) == IF cutoff < NumArticles THEN cutoff ELSE NumArticles

Worker(pc, pos) == [pc |-> pc, pos |-> pos]

\* The worker threads exist: page_stream has returned the receiver.
Spawned == stream_pc \in {"receiving", "dropped"}

\* A channel whose receiver is never seen as dropped by tx.send.
ReceiverNeverDropped(pc) == FALSE

\* What tx.send asks of the channel on line 157: is the receiver gone?
ReceiverDropped(pc) == pc = "dropped"

\* A channel that is disconnected as soon as one sender is dropped.
OneSenderDropped(worker) == \E shard \in Shards : worker[shard].pc \in {"done", "failed"}

\* What rx.recv() asks of the empty channel: are all senders gone?  The tx of
\* line 115 is dropped when page_stream returns, each clone of line 121 when
\* its thread ends.
SendersDropped(worker) == \A shard \in Shards : worker[shard].pc \in {"done", "failed"}

\* page_stream returns an error before any thread is spawned
\* (get_dump_status()? or count_articles()? on lines 98-100) and the
\* command returns it (the ? of links.rs line 73).
PageStreamFails ==
    /\ stream_pc = "start"
    /\ stream_pc' = "failed"
    /\ UNCHANGED <<stream_worker, stream_chan, stream_sent, stream_max, stream_map,
                   stream_disk>>
    /\ UNCHANGED notStreamVars

\* page_stream(cutoff, ..) sets max, spawns one thread per article file,
\* drops their JoinHandles and returns the receiver.
PageStreamSpawn(cutoff) ==
    /\ stream_pc = "start"
    /\ stream_pc' = "receiving"
    /\ stream_max' = StreamMaxOf(cutoff)
    /\ stream_worker' = [shard \in Shards |-> Worker("running", 0)]
    /\ UNCHANGED <<stream_chan, stream_sent, stream_map, stream_disk>>
    /\ UNCHANGED notStreamVars

\* Lines 150-157: the worker parses its next page and sends it, blocking
\* while the channel is full and its receiver is there.
WorkerSend(shard) ==
    /\ Spawned
    /\ ~ReceiverDropped(stream_pc)
    /\ stream_worker[shard].pc = "running"
    /\ stream_worker[shard].pos < PagesPerShard
    /\ Len(stream_chan) < StreamCapacity
    /\ stream_chan' = Append(stream_chan, StreamItem(shard, stream_worker[shard].pos + 1))
    /\ stream_worker' = [stream_worker EXCEPT ![shard] =
                            Worker("sent", stream_worker[shard].pos + 1)]
    /\ UNCHANGED <<stream_pc, stream_sent, stream_max, stream_map, stream_disk>>
    /\ UNCHANGED notStreamVars

\* Line 158: progress_bar.inc(1).
WorkerInc(shard) ==
    /\ Spawned
    /\ stream_worker[shard].pc = "sent"
    /\ stream_sent' = stream_sent + 1
    /\ stream_worker' = [stream_worker EXCEPT ![shard].pc = "counted"]
    /\ UNCHANGED <<stream_pc, stream_chan, stream_max, stream_map, stream_disk>>
    /\ UNCHANGED notStreamVars

\* Lines 159-161: the worker returns Ok(()) once the progress bar is at max.
WorkerCheck(shard) ==
    /\ Spawned
    /\ stream_worker[shard].pc = "counted"
    /\ stream_worker' = [stream_worker EXCEPT ![shard].pc =
                            IF stream_sent >= stream_max THEN "done" ELSE "running"]
    /\ UNCHANGED <<stream_pc, stream_chan, stream_sent, stream_max, stream_map,
                   stream_disk>>
    /\ UNCHANGED notStreamVars

\* Line 166: the index has no more lines.
WorkerReturn(shard) ==
    /\ Spawned
    /\ stream_worker[shard].pc = "running"
    /\ stream_worker[shard].pos = PagesPerShard
    /\ stream_worker' = [stream_worker EXCEPT ![shard].pc = "done"]
    /\ UNCHANGED <<stream_pc, stream_chan, stream_sent, stream_max, stream_map,
                   stream_disk>>
    /\ UNCHANGED notStreamVars

\* One of the ? of lines 124-155: a file cannot be opened, a line cannot be
\* read or decompressed, a page cannot be parsed. The closure returns the
\* error; the thread ends and drops its sender, and nothing joins it.
WorkerError(shard) ==
    /\ Spawned
    /\ stream_worker[shard].pc = "running"
    /\ stream_worker' = [stream_worker EXCEPT ![shard].pc = "failed"]
    /\ UNCHANGED <<stream_pc, stream_chan, stream_sent, stream_max, stream_map,
                   stream_disk>>
    /\ UNCHANGED notStreamVars

\* links.rs lines 76-79: one turn of the loop over the receiver.
StreamRecv ==
    /\ stream_pc = "receiving"
    /\ stream_chan # <<>>
    /\ stream_map' = HMInsert(stream_map, Head(stream_chan)[1], Head(stream_chan)[2])
    /\ stream_chan' = Tail(stream_chan)
    /\ UNCHANGED <<stream_pc, stream_worker, stream_sent, stream_max, stream_disk>>
    /\ UNCHANGED notStreamVars

\* The channel is empty and every sender is dropped: the loop ends, and
\* lines 86-89 mark the map loaded, serialise it and return Ok(map).
StreamEnd ==
    /\ stream_pc = "receiving"
    /\ stream_chan = <<>>
    /\ SendersDropped(stream_worker)
    /\ stream_map' = [stream_map EXCEPT !.fully_loaded = TRUE]
    /\ stream_disk' = HMSerialize(stream_map, stream_disk)
    /\ stream_pc' = "returned_ok"
    /\ UNCHANGED <<stream_worker, stream_chan, stream_sent, stream_max>>
    /\ UNCHANGED notStreamVars

\* The consumer lets go of the receiver before the stream has ended: its
\* loop is left while workers still run (titles.rs lines 16-18, where
\* canonicalise_wikilink can panic).  The messages in the channel are lost.
StreamDrop ==
    /\ stream_pc = "receiving"
    /\ stream_pc' = "dropped"
    /\ stream_chan' = <<>>
    /\ UNCHANGED <<stream_worker, stream_sent, stream_max, stream_map, stream_disk>>
    /\ UNCHANGED notStreamVars

\* Line 157 with the receiver gone: tx.send(..)? returns the SendError, in
\* a send that was blocked too, and the thread ends with it.
WorkerSendFails(shard) ==
    /\ Spawned
    /\ ReceiverDropped(stream_pc)
    /\ stream_worker[shard].pc = "running"
    /\ stream_worker[shard].pos < PagesPerShard
    /\ stream_worker' = [stream_worker EXCEPT ![shard].pc = "failed"]
    /\ UNCHANGED <<stream_pc, stream_chan, stream_sent, stream_max, stream_map,
                   stream_disk>>
    /\ UNCHANGED notStreamVars

InitStream ==
    /\ stream_pc = "start"
    /\ stream_worker = [shard \in Shards |-> Worker("unspawned", 0)]
    /\ stream_chan = <<>>
    /\ stream_sent = 0
    /\ stream_max = 0
    /\ stream_map = NewMap
    /\ stream_disk = [manifest |-> NoFile, parts |-> <<>>]

\* page_stream drained by `while let Ok(x) = rx.recv()` or `for x in rx`.
NextStreamLoop ==
    \/ PageStreamFails
    \/ \E cutoff \in Cutoffs : PageStreamSpawn(cutoff)
    \/ \E shard \in Shards : WorkerSend(shard)
    \/ \E shard \in Shards : WorkerInc(shard)
    \/ \E shard \in Shards : WorkerCheck(shard)
    \/ \E shard \in Shards : WorkerReturn(shard)
    \/ \E shard \in Shards : WorkerError(shard)
    \/ StreamRecv
    \/ StreamEnd

\* page_stream with a consumer that may let go of the receiver.
NextStream ==
    \/ NextStreamLoop
    \/ StreamDrop
    \/ \E shard \in Shards : WorkerSendFails(shard)

(***************************************************************************)
(* page_stream: what the claims are measured against                       *)
(***************************************************************************)
WorkerFailed == \E shard \in Shards : stream_worker[shard].pc = "failed"

StreamPageIds == {StreamPageId(shard, pos) : shard \in Shards, pos \in 1..PagesPerShard}

StreamStored(m) == UNION {DOMAIN m.map[k] : k \in DOMAIN m.map}

\* C20: when a worker of page_stream hits an error the command fails: it
\* does not mark the map loaded and serialise the partial index.
C20_ErrorsAbort ==
    WorkerFailed =>
        /\ stream_pc # "returned_ok"
        /\ ~stream_map.fully_loaded
        /\ ~stream_disk.manifest.exists

\* The command returns only with the map marked loaded and serialised, and
\* without a worker's error that map holds every page of the dump.
CompleteWithoutError ==
    (stream_pc = "returned_ok") =>
        /\ stream_map.fully_loaded /\ stream_disk.manifest.exists
        /\ (~WorkerFailed /\ stream_max = NumArticles) =>
              StreamStored(stream_map) = StreamPageIds

\* The command returned Ok after a worker's error, with pages missing from
\* the map it serialised.
PartialIndexSerialised ==
    /\ stream_pc = "returned_ok"
    /\ WorkerFailed
    /\ stream_max = NumArticles
    /\ StreamStored(stream_map) # StreamPageIds
    /\ stream_disk.manifest.exists

\* The values the workers have put on the channel so far.
Delivered ==
    stream_sent + Cardinality({shard \in Shards : stream_worker[shard].pc = "sent"})

\* C30: with a cutoff below the number of articles the workers of
\* page_stream deliver at most cutoff values on the channel between them, in
\* every interleaving.
C30_CutoffBound ==
    (stream_pc # "start" /\ stream_max < NumArticles) => Delivered <= stream_max

\* Each worker looks at the progress bar only after it has sent: the
\* workers overshoot max by less than their number, or by their number
\* when max is 0.
CutoffOvershoot ==
    (stream_pc # "start") =>
        Delivered <= Max({stream_max, 1}) + NumShards - 1

\* The same for the thread of with_all: once its receiver is dropped it
\* sends no further entry, and it ends at its next send.
WithAllClosedStops ==
    [][(links_pc \in {"dropped", "stopped"}) =>
          /\ links_chan' = links_chan
          /\ links_tx' = links_tx
          /\ links_pc' = "stopped"]_vars

\* C32: once the receiver is dropped, no worker puts a page in the channel
\* or goes on to a further page, and a worker that comes to its next send
\* ends there with the error.
C32_ClosedStopsProducers ==
    [][(stream_pc = "dropped") =>
          /\ stream_chan' = stream_chan
          /\ \A shard \in Shards :
                /\ stream_worker'[shard].pos = stream_worker[shard].pos
                /\ (/\ stream_worker[shard].pc = "running"
                    /\ stream_worker[shard].pos < PagesPerShard
                    /\ stream_worker'[shard] # stream_worker[shard])
                   => stream_worker'[shard].pc = "failed"]_vars

\* The receiver was dropped, one worker has ended at its next send with
\* pages left, and the other had none left to send.
C32_Witness ==
    /\ stream_pc = "dropped"
    /\ stream_worker[1] = Worker("failed", 1)
    /\ stream_worker[2] = Worker("done", PagesPerShard)

AllWorkersFinished == \A shard \in Shards : stream_worker[shard].pc \in {"done", "failed"}

\* The pages the workers have sent.
StreamSentIds ==
    UNION {{StreamPageId(shard, pos) : pos \in 1..stream_worker[shard].pos} :
              shard \in Shards}

\* C33: the receiving loop ends only when every worker has finished and
\* every page that was sent has been received, and once every worker has
\* finished, by the end of its index, by the cutoff or by an error, the loop
\* does end.
C33_StreamEndObservable ==
    /\ []((stream_pc = "returned_ok") =>
            (AllWorkersFinished /\ StreamStored(stream_map) = StreamSentIds))
    /\ ((stream_pc = "receiving" /\ AllWorkersFinished) ~> (stream_pc = "returned_ok"))

\* The loop has ended after one worker came to the end of its index, the
\* other failed, and the pages of both were received.
C33_Witness ==
    /\ stream_pc = "returned_ok"
    /\ stream_worker[1] = Worker("done", PagesPerShard)
    /\ stream_worker[2] = Worker("failed", 1)
    /\ StreamStored(stream_map) = StreamSentIds

(***************************************************************************)
(* HierarchicalMap shared by threads: insert, mutate_with_default, with    *)
(***************************************************************************)
\* Number of threads that call the shared map.
NumThreads == 2

\* Largest number of calls the threads make in total.
MaxConcOps == 3

Threads == 1..NumThreads

\* No thread: the writer of a lock nobody holds for writing.
NoThread == 0

\* A key whose partition is on the disk and two keys of one partition that
\* is not.
ConcKeys == {KeyAt(1), KeyAt(4), KeyAt(5)}

ConcShortKeys == {IdShortKey(l) : l \in ConcKeys}

\* The value the insert calls store and the list the mutate calls append.
ConcVec == <<KeyAt(2)>>

\* The directory an earlier run has serialised: KeyAt(1) -> [KeyAt(1)].
ConcDisk ==
    HMSerialize(HMInsert([fully_loaded |-> TRUE, map |-> <<>>], KeyAt(1), <<KeyAt(1)>>),
                [manifest |-> NoFile, parts |-> <<>>])

Unlocked == [readers |-> {}, writer |-> NoThread]

\* RwLock::read and RwLock::write return when these hold.
CanRead(lock) == lock.writer = NoThread

CanWrite(lock) == lock.writer = NoThread /\ lock.readers = {}

\* Dropping whatever guard thread t holds on a lock.
Release(lock, t) ==
    [readers |-> lock.readers \ {t},
     writer |-> IF lock.writer = t THEN NoThread ELSE lock.writer]

\* A mutation of DropGuard: the read guard is kept.
DropGuardKept(lock, t) == lock

\* drop(guard), lines 142 and 168, and drop(outer_guard), line 201.
DropGuard(lock, t) == Release(lock, t)

\* A mutation of OrDefault: the partition is created anew.
OrReplace(outer_map, short_key) == Put(outer_map, short_key, <<>>)

\* entry(short_key).or_default(), lines 146-147 and 173-174.
OrDefault(outer_map, short_key) ==
    IF short_key \in DOMAIN outer_map THEN outer_map
    ELSE Put(outer_map, short_key, <<>>)

\* What the call does to the partition once it holds its write lock:
\* insert(key, value), or mutate(entry(key).or_default()) with
\* mutate = |list| list.extend(v).
ApplyTo(inner, op, l, v) ==
    IF op = "insert" THEN Put(inner, l, v)
    ELSE Put(inner, l, (IF l \in DOMAIN inner THEN inner[l] ELSE <<>>) \o v)

Thread(pc, op, l, v, memo) == [pc |-> pc, op |-> op, l |-> l, v |-> v, memo |-> memo]

Idle == Thread("idle", "none", 0, <<>>, FALSE)

NotWritten == [some |-> FALSE, value |-> <<>>]

\* A thread calls insert(l, ConcVec), mutate_with_default(l, ..) or
\* with(l, ..): lines 133, 163, 193.
ConcCall(t, op, l) ==
    /\ conc_thread[t].pc = "idle"
    /\ conc_ops < MaxConcOps
    /\ conc_ops' = conc_ops + 1
    /\ conc_thread' = [conc_thread EXCEPT ![t] =
                          Thread("want_outer_read", op, l, ConcVec, FALSE)]
    /\ UNCHANGED <<conc_map, conc_outer, conc_inner, conc_done, conc_written, conc_raced>>
    /\ UNCHANGED notConcVars

\* self.map.read().unwrap(), lines 134, 164, 194.
ConcOuterRead(t) ==
    /\ conc_thread[t].pc = "want_outer_read"
    /\ CanRead(conc_outer)
    /\ conc_outer' = [conc_outer EXCEPT !.readers = @ \cup {t}]
    /\ conc_thread' = [conc_thread EXCEPT ![t].pc = "got_outer_read"]
    /\ UNCHANGED <<conc_map, conc_inner, conc_ops, conc_done, conc_written, conc_raced>>
    /\ UNCHANGED notConcVars

\* match guard.get(&short_key), lines 135-142 and 165-168: with the
\* partition the thread goes for its write lock, the guard still held;
\* without it the guard is dropped and the thread goes for the outer write
\* lock.
ConcMatch(t) ==
    /\ conc_thread[t].pc = "got_outer_read"
    /\ conc_thread[t].op \in {"insert", "mutate"}
    /\ IF IdShortKey(conc_thread[t].l) \in DOMAIN conc_map.map
       THEN /\ conc_thread' = [conc_thread EXCEPT ![t].pc = "want_inner_write"]
            /\ conc_outer' = conc_outer
       ELSE /\ conc_thread' = [conc_thread EXCEPT ![t].pc = "want_outer_write"]
            /\ conc_outer' = DropGuard(conc_outer, t)
    /\ UNCHANGED <<conc_map, conc_inner, conc_ops, conc_done, conc_written, conc_raced>>
    /\ UNCHANGED notConcVars

\* self.map.write().unwrap().entry(short_key).or_default(), lines 143-147
\* and 170-174.
ConcOuterWrite(t) ==
    /\ conc_thread[t].pc = "want_outer_write"
    /\ CanWrite(conc_outer)
    /\ conc_outer' = [conc_outer EXCEPT !.writer = t]
    /\ conc_map' = [conc_map EXCEPT !.map = OrDefault(@, IdShortKey(conc_thread[t].l))]
    /\ conc_raced' = (conc_raced \/ IdShortKey(conc_thread[t].l) \in DOMAIN conc_map.map)
    /\ conc_thread' = [conc_thread EXCEPT ![t].pc = "want_inner_write"]
    /\ UNCHANGED <<conc_inner, conc_ops, conc_done, conc_written>>
    /\ UNCHANGED notConcVars

\* inner_map.write().unwrap(), lines 136, 148-149, 166, 175-176.
ConcInnerWrite(t) ==
    /\ conc_thread[t].pc = "want_inner_write"
    /\ CanWrite(conc_inner[IdShortKey(conc_thread[t].l)])
    /\ conc_inner' = [conc_inner EXCEPT ![IdShortKey(conc_thread[t].l)].writer = t]
    /\ conc_thread' = [conc_thread EXCEPT ![t].pc = "holding_inner_write"]
    /\ UNCHANGED <<conc_map, conc_outer, conc_ops, conc_done, conc_written, conc_raced>>
    /\ UNCHANGED notConcVars

\* The entry is written, and the guards are dropped as the call returns.
ConcApply(t) ==
    /\ conc_thread[t].pc = "holding_inner_write"
    /\ LET self == conc_thread[t]
           short_key == IdShortKey(self.l)
       IN /\ conc_map' = [conc_map EXCEPT !.map[short_key] =
                             ApplyTo(@, self.op, self.l, self.v)]
          /\ conc_inner' = [conc_inner EXCEPT ![short_key] = Release(@, t)]
          /\ conc_outer' = Release(conc_outer, t)
          /\ conc_done' = IF self.memo THEN conc_done ELSE conc_done \cup {self.l}
          /\ conc_written' =
                IF self.memo THEN conc_written
                ELSE IF self.op = "insert"
                THEN [conc_written EXCEPT ![self.l] = [some |-> TRUE, value |-> self.v]]
                ELSE [conc_written EXCEPT ![self.l] = NotWritten]
    /\ conc_thread' = [conc_thread EXCEPT ![t] = Idle]
    /\ UNCHANGED <<conc_ops, conc_raced>>
    /\ UNCHANGED notConcVars

\* with, lines 195-196: outer_guard.get(&short_key).
ConcWithGet(t) ==
    /\ conc_thread[t].pc = "got_outer_read"
    /\ conc_thread[t].op = "with"
    /\ IF IdShortKey(conc_thread[t].l) \in DOMAIN conc_map.map
       THEN /\ conc_thread' = [conc_thread EXCEPT ![t].pc = "want_inner_read"]
            /\ conc_outer' = conc_outer
       ELSE /\ conc_thread' = [conc_thread EXCEPT ![t].pc = "missed"]
            /\ conc_outer' = DropGuard(conc_outer, t)
    /\ UNCHANGED <<conc_map, conc_inner, conc_ops, conc_done, conc_written, conc_raced>>
    /\ UNCHANGED notConcVars

\* inner_map.read().unwrap(), line 197.
ConcInnerRead(t) ==
    /\ conc_thread[t].pc = "want_inner_read"
    /\ CanRead(conc_inner[IdShortKey(conc_thread[t].l)])
    /\ conc_inner' = [conc_inner EXCEPT ![IdShortKey(conc_thread[t].l)].readers = @ \cup {t}]
    /\ conc_thread' = [conc_thread EXCEPT ![t].pc = "holding_inner_read"]
    /\ UNCHANGED <<conc_map, conc_outer, conc_ops, conc_done, conc_written, conc_raced>>
    /\ UNCHANGED notConcVars

\* with, lines 197-201: .get(key) under both guards; a hit returns
\* Some(f(value)), a miss drops the guards and goes on to the disk.
ConcWithLook(t) ==
    /\ conc_thread[t].pc = "holding_inner_read"
    /\ LET self == conc_thread[t]
           short_key == IdShortKey(self.l)
       IN /\ conc_inner' = [conc_inner EXCEPT ![short_key] = Release(@, t)]
          /\ IF self.l \in DOMAIN conc_map.map[short_key]
             THEN /\ conc_outer' = Release(conc_outer, t)
                  /\ conc_thread' = [conc_thread EXCEPT ![t] = Idle]
             ELSE /\ conc_outer' = DropGuard(conc_outer, t)
                  /\ conc_thread' = [conc_thread EXCEPT ![t].pc = "missed"]
    /\ UNCHANGED <<conc_map, conc_ops, conc_done, conc_written, conc_raced>>
    /\ UNCHANGED notConcVars

\* with, lines 202-223: None on a fully loaded map, without the file or
\* without the entry; an entry found is given to f and then to self.insert.
ConcWithDisk(t) ==
    /\ conc_thread[t].pc = "missed"
    /\ LET self == conc_thread[t]
           name == PartName(IdShortKey(self.l))
           found == FindEntryInFile(ConcDisk.parts[name], self.l)
       IN conc_thread' =
            IF conc_map.fully_loaded \/ name \notin DOMAIN ConcDisk.parts
            THEN [conc_thread EXCEPT ![t] = Idle]
            ELSE IF found.pc # "returned"
            THEN [conc_thread EXCEPT ![t].pc = found.pc]
            ELSE IF found.ret.some
            THEN [conc_thread EXCEPT ![t] =
                     Thread("want_outer_read", "insert", self.l,
                            JsonValue(found.ret.path), TRUE)]
            ELSE [conc_thread EXCEPT ![t] = Idle]
    /\ UNCHANGED <<conc_map, conc_outer, conc_inner, conc_ops, conc_done, conc_written,
                   conc_raced>>
    /\ UNCHANGED notConcVars

\* The map of generate_*_links(false): deserialize(false) has made the
\* partitions of the manifest, empty.
InitConc ==
    /\ conc_map = HMDeserialize(NewMap, ConcDisk, FALSE).m
    /\ conc_outer = Unlocked
    /\ conc_inner = [k \in ConcShortKeys |-> Unlocked]
    /\ conc_thread = [t \in Threads |-> Idle]
    /\ conc_ops = 0
    /\ conc_done = {}
    /\ conc_written = [l \in ConcKeys |-> NotWritten]
    /\ conc_raced = FALSE

NextConc ==
    \/ \E t \in Threads, op \in {"insert", "mutate", "with"}, l \in ConcKeys :
          ConcCall(t, op, l)
    \/ \E t \in Threads : ConcOuterRead(t)
    \/ \E t \in Threads : ConcMatch(t)
    \/ \E t \in Threads : ConcOuterWrite(t)
    \/ \E t \in Threads : ConcInnerWrite(t)
    \/ \E t \in Threads : ConcApply(t)
    \/ \E t \in Threads : ConcWithGet(t)
    \/ \E t \in Threads : ConcInnerRead(t)
    \/ \E t \in Threads : ConcWithLook(t)
    \/ \E t \in Threads : ConcWithDisk(t)

(***************************************************************************)
(* Shared HierarchicalMap: what the claims are measured against            *)
(***************************************************************************)
\* The lock a thread is asking for and cannot have now.
Blocked(t) ==
    LET self == conc_thread[t]
        inner == conc_inner[IdShortKey(self.l)]
    IN \/ self.pc = "want_outer_read" /\ ~CanRead(conc_outer)
       \/ self.pc = "want_outer_write" /\ ~CanWrite(conc_outer)
       \/ self.pc = "want_inner_write" /\ ~CanWrite(inner)
       \/ self.pc = "want_inner_read" /\ ~CanRead(inner)

\* Threads wait for locks and no thread can take a step that frees one.
Deadlocked ==
    /\ \E t \in Threads : Blocked(t)
    /\ \A t \in Threads : conc_thread[t].pc # "idle" => Blocked(t)

\* C23: no thread asks for the outer write lock while it holds the outer
\* read lock, and the insert, mutate_with_default and with calls of the
\* threads never deadlock.
C23_NoLockUpgrade ==
    /\ \A t \in Threads :
          conc_thread[t].pc = "want_outer_write" => t \notin conc_outer.readers
    /\ ~Deadlocked

\* A thread waits for the outer write lock, having dropped its guard, while
\* another thread holds the outer read lock.
C23_Witness ==
    \E t, u \in Threads :
        /\ conc_thread[t].pc = "want_outer_write"
        /\ t \notin conc_outer.readers
        /\ u \in conc_outer.readers
        /\ Blocked(t)

InMemoryKeys == UNION {DOMAIN conc_map.map[k] : k \in DOMAIN conc_map.map}

\* C24: when threads insert or mutate keys of a short key that has no
\* partition yet, the partition holds the key of every call that has
\* returned: no thread replaces the partition another one created.
C24_DoubleChecked == conc_done \subseteq InMemoryKeys

\* Two threads went for the outer write lock for one missing partition; the
\* second found the partition of the first, and both keys are in it.
C24_Witness ==
    /\ conc_raced
    /\ \A t \in Threads : conc_thread[t].pc = "idle"
    /\ {KeyAt(4), KeyAt(5)} \subseteq conc_done
    /\ {KeyAt(4), KeyAt(5)} \subseteq DOMAIN conc_map.map[IdShortKey(KeyAt(4))]

\* C25: on a map that is not fully loaded, when insert(l, v2) returns while
\* a with(l, ..) that missed in memory reads the older v1 from the disk, the
\* value of l in memory is v2 once both have returned.
C25_NoLostWrite ==
    (\A t \in Threads : conc_thread[t].pc = "idle") =>
        \A l \in ConcKeys :
            conc_written[l].some =>
                /\ l \in InMemoryKeys
                /\ conc_map.map[IdShortKey(l)][l] = conc_written[l].value

(***************************************************************************)
(* The index loop of a page_stream worker (page.rs)                        *)
(*                                                                         *)
(* One worker followed line by line through the index of its shard, with   *)
(* the channel drained and the cutoff out of reach.                        *)
(***************************************************************************)
\* Largest number of lines of a shard's index.
MaxIndexLines == 3

\* Byte offsets of sub-streams are 0..MaxOffset.
MaxOffset == 2

Offsets == 0..MaxOffset

\* A line of the index that is_empty().
EmptyLine == -1

\* An index file: by line, the byte_offset before the first ':', or an empty
\* line.  The article of line i has id i.
Indexes == UNION {[1..n -> Offsets \cup {EmptyLine}] : n \in 0..MaxIndexLines}

\* read_pages (lines 376-382): seek to byte_offset and decode the one bzip2
\* stream that starts there.  Its pages, in their order, are the articles the
\* index lists with that offset.
RECURSIVE ReadPages(_, _)
ReadPages(index, byte_offset) ==
    IF index = <<>> THEN <<>>
    ELSE LET n == Len(index)
             before == ReadPages(SubSeq(index, 1, n - 1), byte_offset)
         IN  IF index[n] = byte_offset THEN Append(before, n) ELSE before

\* The guard of line 148.
NewOffset(byte_offset, latest) == byte_offset > latest

\* The worker opens the index of its shard (lines 124-136).
IndexOpen(index) ==
    /\ index_pc = "closed"
    /\ index_pc' = "reading"
    /\ index_lines' = index
    /\ index_line' = 0
    /\ latest_offset' = 0
    /\ index_read' = <<>>
    /\ index_sent' = <<>>
    /\ UNCHANGED notIndexVars

\* One turn of `for line in lines` (lines 138-164).
IndexLine ==
    /\ index_pc = "reading"
    /\ index_line < Len(index_lines)
    /\ index_line' = index_line + 1
    /\ LET byte_offset == index_lines[index_line + 1]
       IN  IF byte_offset = EmptyLine
           THEN UNCHANGED <<latest_offset, index_read, index_sent>>
           ELSE IF NewOffset(byte_offset, latest_offset)
           THEN /\ latest_offset' = byte_offset
                /\ index_read' = Append(index_read, byte_offset)
                /\ index_sent' = index_sent \o ReadPages(index_lines, byte_offset)
           ELSE UNCHANGED <<latest_offset, index_read, index_sent>>
    /\ UNCHANGED <<index_pc, index_lines>>
    /\ UNCHANGED notIndexVars

\* The lines are exhausted: Ok(()) (line 166).
IndexEnd ==
    /\ index_pc = "reading"
    /\ index_line = Len(index_lines)
    /\ index_pc' = "done"
    /\ UNCHANGED <<index_lines, index_line, latest_offset, index_read, index_sent>>
    /\ UNCHANGED notIndexVars

InitIndex ==
    /\ index_pc = "closed"
    /\ index_lines = <<>>
    /\ index_line = 0
    /\ latest_offset = 0
    /\ index_read = <<>>
    /\ index_sent = <<>>

NextIndex ==
    \/ \E index \in Indexes : IndexOpen(index)
    \/ IndexLine
    \/ IndexEnd

(***************************************************************************)
(* Index loop: claims                                                      *)
(***************************************************************************)
\* The offsets of the lines that are not empty, in index order.
RECURSIVE ListedOffsets(_)
ListedOffsets(index) ==
    IF index = <<>> THEN <<>>
    ELSE IF Head(index) = EmptyLine THEN ListedOffsets(Tail(index))
    ELSE <<Head(index)>> \o ListedOffsets(Tail(index))

NonDecreasing(list) == \A i \in 1..(Len(list) - 1) : list[i] <= list[i + 1]

\* The distinct values of a list, each at its first place.
RECURSIVE Distinct(_)
Distinct(list) ==
    IF list = <<>> THEN <<>>
    ELSE LET before == Distinct(SubSeq(list, 1, Len(list) - 1))
         IN  IF \E i \in 1..Len(before) : before[i] = Last(list)
             THEN before ELSE Append(before, Last(list))

\* The articles of the lines that are not empty, in index order.
ListedArticles(index) ==
    SelectSeq([i \in 1..Len(index) |-> i], LAMBDA i : index[i] # EmptyLine)

\* C31: when the worker has gone through an index whose byte offsets are
\* non-decreasing, it has read the sub-stream at every distinct offset of the
\* index once, in index order, a first offset of 0 included, and has sent the
\* pages of each in their order.
C31_EachSubStreamOnce ==
    (index_pc = "done" /\ NonDecreasing(ListedOffsets(index_lines))) =>
        /\ index_read = Distinct(ListedOffsets(index_lines))
        /\ index_sent = ListedArticles(index_lines)

\* What holds instead: the sub-streams at the distinct offsets above 0 are
\* read once each and in order; the one at offset 0 is never read.
PositiveSubStreamsOnce ==
    (index_pc = "done" /\ NonDecreasing(ListedOffsets(index_lines))) =>
        /\ index_read = SelectSeq(Distinct(ListedOffsets(index_lines)), LAMBDA o : o > 0)
        /\ index_sent = SelectSeq(ListedArticles(index_lines),
                                  LAMBDA i : index_lines[i] > 0)

(***************************************************************************)
(* The long path sampler (commands/long_paths.rs)                          *)
(***************************************************************************)
\* Number of sampler threads (16 on line 29).
NumSamplers == 2

\* Largest number of pairs the threads try together.
MaxTried == 3

\* Largest path.len() the solver returns.
MaxPathLen == 3

\* Line 50: every hundredth pair is reported.
TriedEvery == 100

Samplers == 1..NumSamplers

\* Option<Vec<u32>> by its length: 0 stands for None, a path has at least
\* its start.
PathLens == 0..MaxPathLen

Sampler(pc, len, i) == [pc |-> pc, len |-> len, i |-> i]

OutLine(t, kind, len) == [thread |-> t, kind |-> kind, len |-> len]

\* A stdout whose lock is given to whoever asks.
StdoutLockAlways(lock, t) == TRUE

\* std::io::stdout().lock() (line 57) and the lock println! takes for its
\* line (line 51): granted when no other thread holds it.
StdoutLock(lock, t) == lock = NoThread

\* Lines 42-48: two random articles and the shortest path between them.
SamplerSolve(t, len) ==
    /\ sampler_thread[t].pc = "solve"
    /\ paths_tried < MaxTried
    /\ sampler_thread' = [sampler_thread EXCEPT ![t] = Sampler("count", len, 0)]
    /\ UNCHANGED <<longest_path_length, paths_tried, stdout_lock, stdout_lines>>
    /\ UNCHANGED notSamplerVars

\* Lines 42-43: random_article_id(..)? fails and the thread ends.
SamplerFails(t) ==
    /\ sampler_thread[t].pc = "solve"
    /\ sampler_thread' = [sampler_thread EXCEPT ![t].pc = "failed"]
    /\ UNCHANGED <<longest_path_length, paths_tried, stdout_lock, stdout_lines>>
    /\ UNCHANGED notSamplerVars

\* Lines 49-50: paths_tried.fetch_add(1) and the test of the old value.
SamplerCount(t) ==
    /\ sampler_thread[t].pc = "count"
    /\ paths_tried' = paths_tried + 1
    /\ sampler_thread' = [sampler_thread EXCEPT ![t].pc =
                             IF paths_tried % TriedEvery = 0 THEN "tried" ELSE "load"]
    /\ UNCHANGED <<longest_path_length, stdout_lock, stdout_lines>>
    /\ UNCHANGED notSamplerVars

\* Line 51: println!("Tried {paths_tried} paths") takes the lock of stdout
\* for its line.
SamplerTried(t) ==
    /\ sampler_thread[t].pc = "tried"
    /\ StdoutLock(stdout_lock, t)
    /\ stdout_lines' = Append(stdout_lines, OutLine(t, "tried", 0))
    /\ sampler_thread' = [sampler_thread EXCEPT ![t].pc = "load"]
    /\ UNCHANGED <<longest_path_length, paths_tried, stdout_lock>>
    /\ UNCHANGED notSamplerVars

\* Lines 53-54: if let Some(path) and
\* path.len() >= longest_path_length.load(SeqCst).
SamplerLoad(t) ==
    /\ sampler_thread[t].pc = "load"
    /\ sampler_thread' = [sampler_thread EXCEPT ![t].pc =
                             IF /\ sampler_thread[t].len > 0
                                /\ sampler_thread[t].len >= longest_path_length
                             THEN "fetch_max" ELSE "solve"]
    /\ UNCHANGED <<longest_path_length, paths_tried, stdout_lock, stdout_lines>>
    /\ UNCHANGED notSamplerVars

\* Line 55: longest_path_length.fetch_max(path.len(), SeqCst).
SamplerFetchMax(t) ==
    /\ sampler_thread[t].pc = "fetch_max"
    /\ longest_path_length' = Max({longest_path_length, sampler_thread[t].len})
    /\ sampler_thread' = [sampler_thread EXCEPT ![t].pc = "lock"]
    /\ UNCHANGED <<paths_tried, stdout_lock, stdout_lines>>
    /\ UNCHANGED notSamplerVars

\* Lines 57-62: the lock of stdout is taken and the header is written.
SamplerHeader(t) ==
    /\ sampler_thread[t].pc = "lock"
    /\ StdoutLock(stdout_lock, t)
    /\ stdout_lock' = t
    /\ stdout_lines' = Append(stdout_lines, OutLine(t, "header", sampler_thread[t].len))
    /\ sampler_thread' = [sampler_thread EXCEPT ![t].pc = "items"]
    /\ UNCHANGED <<longest_path_length, paths_tried>>
    /\ UNCHANGED notSamplerVars

\* Lines 63-72: the line of the next article of the path.
SamplerItem(t) ==
    /\ sampler_thread[t].pc = "items"
    /\ sampler_thread[t].i < sampler_thread[t].len
    /\ stdout_lines' = Append(stdout_lines, OutLine(t, "item", sampler_thread[t].len))
    /\ sampler_thread' = [sampler_thread EXCEPT ![t].i = @ + 1]
    /\ UNCHANGED <<longest_path_length, paths_tried, stdout_lock>>
    /\ UNCHANGED notSamplerVars

\* Lines 73-74: the closing empty line; out goes out of scope and the lock
\* is released.
SamplerClose(t) ==
    /\ sampler_thread[t].pc = "items"
    /\ sampler_thread[t].i = sampler_thread[t].len
    /\ stdout_lines' = Append(stdout_lines, OutLine(t, "close", sampler_thread[t].len))
    /\ stdout_lock' = NoThread
    /\ sampler_thread' = [sampler_thread EXCEPT ![t].pc = "solve"]
    /\ UNCHANGED <<longest_path_length, paths_tried>>
    /\ UNCHANGED notSamplerVars

\* A writeln!(out, ..)? of lines 58-73 fails: the thread ends with the
\* error, its path cut short, and out is dropped.
SamplerWriteFails(t) ==
    /\ sampler_thread[t].pc = "items"
    /\ stdout_lock' = NoThread
    /\ sampler_thread' = [sampler_thread EXCEPT ![t].pc = "failed"]
    /\ UNCHANGED <<longest_path_length, paths_tried, stdout_lines>>
    /\ UNCHANGED notSamplerVars

\* Lines 27-38: the counters are 0 and the threads are at the top of their
\* loops.
InitSampler ==
    /\ sampler_thread = [t \in Samplers |-> Sampler("solve", 0, 0)]
    /\ longest_path_length = 0
    /\ paths_tried = 0
    /\ stdout_lock = NoThread
    /\ stdout_lines = <<>>

NextSampler ==
    \/ \E t \in Samplers, len \in PathLens : SamplerSolve(t, len)
    \/ \E t \in Samplers : SamplerFails(t)
    \/ \E t \in Samplers : SamplerCount(t)
    \/ \E t \in Samplers : SamplerTried(t)
    \/ \E t \in Samplers : SamplerLoad(t)
    \/ \E t \in Samplers : SamplerFetchMax(t)
    \/ \E t \in Samplers : SamplerHeader(t)
    \/ \E t \in Samplers : SamplerItem(t)
    \/ \E t \in Samplers : SamplerClose(t)
    \/ \E t \in Samplers : SamplerWriteFails(t)

(***************************************************************************)
(* Sampler: claims                                                         *)
(***************************************************************************)
\* The lengths of the paths printed, in the order of their headers.
PrintedLens ==
    LET headers == SelectSeq(stdout_lines, LAMBDA line : line.kind = "header")
    IN  [i \in 1..Len(headers) |-> headers[i].len]

\* C34: every path printed is at least as long as every path printed before
\* it, and the shared maximum never decreases.
C34_OnlyRecordPaths ==
    /\ [](\A i \in 1..Len(PrintedLens) : \A j \in i..Len(PrintedLens) :
              PrintedLens[i] <= PrintedLens[j])
    /\ [][longest_path_length' >= longest_path_length]_vars

\* What holds instead: the shared maximum never decreases and is at least
\* the length of every path whose header was printed.
MaxNeverDecreases ==
    /\ [](\A i \in 1..Len(PrintedLens) : PrintedLens[i] <= longest_path_length)
    /\ [][longest_path_length' >= longest_path_length]_vars

\* C35: the lines of one path are written while its thread holds the lock
\* of stdout, so a line of a path that is not its closing line is followed
\* by the next line of the same path: no line of another thread's path and
\* no "Tried N paths" line comes between.  Only a path that a failed write
\* has cut short is followed by something else.
C35_AtomicPathOutput ==
    /\ \A i \in 1..Len(stdout_lines) :
          LET t == stdout_lines[i].thread
              cut == /\ sampler_thread[t].pc = "failed"
                     /\ \A j \in (i + 1)..Len(stdout_lines) : stdout_lines[j].thread # t
          IN  stdout_lines[i].kind \in {"header", "item"} =>
                  IF i = Len(stdout_lines)
                  THEN stdout_lock = t \/ cut
                  ELSE \/ /\ stdout_lines[i + 1].thread = t
                          /\ stdout_lines[i + 1].kind \in {"item", "close"}
                       \/ cut
    /\ \A t \in Samplers :
          sampler_thread[t].pc = "items" => stdout_lock = t

\* A whole path was printed while the other thread stood before its own
\* header or before its "Tried N paths" line.
C35_Witness ==
    /\ Len(stdout_lines) > 0
    /\ Last(stdout_lines).kind = "item"
    /\ \E t \in Samplers :
          /\ stdout_lock # t
          /\ sampler_thread[t].pc \in {"lock", "tried"}

(***************************************************************************)
(* download_file (commands/download.rs)                                    *)
(***************************************************************************)
\* Length of the body of a data file, in bytes.
BodyLen == 2

\* The files of the manifest: an article file and its index, whose url
\* contains "index".
DataFiles == {"articles", "articles-index"}

IsIndex(f) == f = "articles-index"

DataBytes == {0, 1}

\* What the server may answer with: the reader yields these bytes.
Bodies == [1..BodyLen -> DataBytes]

\* The bytes the manifest describes.
ManifestBody == [i \in 1..BodyLen |-> 1]

\* md5::Context over the bytes consumed (lines 141, 157, 160): distinct
\* bodies of the model have distinct digests.
RECURSIVE Md5(_)
Md5(bytes) == IF bytes = <<>> THEN 1 ELSE 2 * Md5(Tail(bytes)) + Head(bytes)

\* FileStatus::md5 of the manifest.
ManifestMd5 == Md5(ManifestBody)

\* How far a download gets: the call fails, or the reader fails after some
\* bytes, or the body is read to its end.
Stops == {"call", "read", "end"}

LocalFile(exists, bytes) == [exists |-> exists, bytes |-> bytes]

DownloadOp(f, result) == [file |-> f, result |-> result]

\* download_file(agent, status, progress), lines 120-169, with the answer of
\* the server: the body it serves, where the transfer stops and, when
\* the reader fails, after how many bytes.
DownloadFile(f, body, stop, n) ==
    /\ IF download_disk[f].exists
       THEN \* lines 128-131: the local path is a file
            /\ download_op' = DownloadOp(f, "skipped")
            /\ UNCHANGED <<download_disk, download_verified>>
       ELSE IF stop = "call"
       THEN \* line 134: agent.get(&url).call()?
            /\ download_op' = DownloadOp(f, "failed")
            /\ UNCHANGED <<download_disk, download_verified>>
       ELSE IF stop = "read"
       THEN \* line 151: reader.read(..)? fails; File::create (line 138) and
            \* the writes of line 156 have been made
            /\ download_op' = DownloadOp(f, "failed")
            /\ download_disk' = [download_disk EXCEPT ![f] =
                                    LocalFile(TRUE, SubSeq(body, 1, n))]
            /\ UNCHANGED download_verified
       ELSE IF ~IsIndex(f) /\ Md5(body) # ManifestMd5
       THEN \* line 164: assert_eq!(status.md5, digest) panics; the
            \* BufWriter is flushed when it is dropped
            /\ download_op' = DownloadOp(f, "panicked")
            /\ download_disk' = [download_disk EXCEPT ![f] = LocalFile(TRUE, body)]
            /\ UNCHANGED download_verified
       ELSE \* lines 167-168
            /\ download_op' = DownloadOp(f, "downloaded")
            /\ download_disk' = [download_disk EXCEPT ![f] = LocalFile(TRUE, body)]
            /\ download_verified' =
                  IF IsIndex(f) THEN download_verified ELSE download_verified \cup {f}
    /\ UNCHANGED notDownloadVars

\* No file is under data/ and no call was made.
InitDownload ==
    /\ download_disk = [f \in DataFiles |-> LocalFile(FALSE, <<>>)]
    /\ download_verified = {}
    /\ download_op = DownloadOp("", "none")

NextDownload ==
    \E f \in DataFiles, body \in Bodies, stop \in Stops, n \in 0..(BodyLen - 1) :
        DownloadFile(f, body, stop, n)

(***************************************************************************)
(* download_file: claims                                                   *)
(***************************************************************************)
\* C36: a file that download_file accepts as already downloaded was written
\* in full by an earlier call and its bytes matched the MD5 of the manifest.
C36_OnlyVerifiedSkipped ==
    (download_op.result = "skipped") =>
        /\ download_op.file \in download_verified
        /\ Md5(download_disk[download_op.file].bytes) = ManifestMd5

\* What holds instead: a file is accepted exactly when its local path exists,
\* and a verified file has the bytes of the manifest.
SkippedWhenPresent ==
    /\ (download_op.result = "skipped") => download_disk[download_op.file].exists
    /\ \A f \in download_verified : download_disk[f].bytes = ManifestBody

(***************************************************************************)
(* The links command: claims                                               *)
(***************************************************************************)
\* The articles the stream has delivered: each has its entry in the
\* outgoing map and its title in the TitleMap.
KnownArticle(id) == id \in StoredIdsOf(links_outgoing)

\* The pages that link to id, in ascending order.
LinkingTo(id) ==
    SelectSeq(SortedSeq(StoredIdsOf(links_outgoing)),
              LAMBDA x : InList(id, StoredLinks(links_outgoing, x)))

\* C37: for every article of the TitleMap the links command completes and
\* lists its outgoing links and its incoming links, an empty list when no
\* page links to it.
C37_LinksTotal ==
    (links_cmd.outcome # "none" /\ KnownArticle(links_cmd.id)) =>
        /\ links_cmd.outcome = "listed"
        /\ links_cmd.outgoing = StoredLinks(links_outgoing, links_cmd.id)
        /\ \A x \in LinkIds :
              InList(x, links_cmd.incoming) <=> InList(x, LinkingTo(links_cmd.id))

\* What holds instead: the command completes for an article that some page
\* links to, and panics for one that no page links to.
TotalWhenLinkedTo ==
    (links_cmd.outcome # "none" /\ KnownArticle(links_cmd.id)) =>
        IF LinkingTo(links_cmd.id) = <<>>
        THEN links_cmd.outcome = "panicked"
        ELSE /\ links_cmd.outcome = "listed"
             /\ links_cmd.outgoing = StoredLinks(links_outgoing, links_cmd.id)
             /\ \A x \in LinkIds :
                   InList(x, links_cmd.incoming) <=> InList(x, LinkingTo(links_cmd.id))

(***************************************************************************)
(* canonicalise_wikilink: underscores and runs of spaces                   *)
(***************************************************************************)
HasUnderscore(str) == \E i \in 1..Len(str) : str[i] = "_"

HasSpaceRun(str) == \E i \in 1..(Len(str) - 1) : str[i] = " " /\ str[i + 1] = " "

\* C39: the String canonicalise_wikilink returns holds no underscore and no
\* two spaces in a row.
C39_NoSpaceRuns ==
    (canon_pc # "input" /\ canon_once.ok) =>
        /\ ~HasUnderscore(canon_once.s)
        /\ ~HasSpaceRun(canon_once.s)

\* What holds instead: the String returned holds no underscore, and it has a
\* run of spaces exactly when the input has a run of spaces and underscores
\* after its first character is put in upper case and its namespace in
\* canonical form.
UnderscoresOnlyReplaced ==
    (canon_pc # "input" /\ canon_once.ok) =>
        /\ ~HasUnderscore(canon_once.s)
        /\ HasSpaceRun(canon_once.s) =>
              HasSpaceRun(ReplaceUnderscores(SplitNamespace(canon_input).input))

(***************************************************************************)
(* find_links and Wikilink::target_root (parse/wikitext.rs)                *)
(***************************************************************************)
\* Largest number of pieces a wikitext is put together from.
MaxWikiTokens == 4

\* The pieces of the model's wikitexts.
WikiTokens == { <<"[", "[">>, <<"]", "]">>, <<"|">>, <<"#">>, <<"x">> }

\* text.match_indices("[["): where the matches start, none overlapping the
\* one before, from position i on.
RECURSIVE MatchIndices(_, _)
MatchIndices(text, i) ==
    IF i + 1 > Len(text) THEN <<>>
    ELSE IF text[i] = "[" /\ text[i + 1] = "["
         THEN <<i>> \o MatchIndices(text, i + 2)
         ELSE MatchIndices(text, i + 1)

\* text[from..].find("]]"): where the first "]]" at or after from starts, 0
\* for None.
FindClose(text, from) ==
    LET at == {j \in from..(Len(text) - 1) : text[j] = "]" /\ text[j + 1] = "]"}
    IN  IF at = {} THEN 0 ELSE Min(at)

Wikilink(target, text) == [target |-> target, text |-> text]

\* Lines 13-23: the link whose contents are given, split at its first '|'.
LinkOf(contents) ==
    LET at == IndexOf(contents, "|")
    IN  IF at = 0 THEN Wikilink(contents, contents)
        ELSE Wikilink(SubSeq(contents, 1, at - 1), SubSeq(contents, at + 1, Len(contents)))

\* find_links(text)
FindLinks(text) ==
    LET starts == MatchIndices(text, 1)
        closed == SelectSeq(starts, LAMBDA s : FindClose(text, s + 2) # 0)
    IN  [k \in 1..Len(closed) |->
            LinkOf(SubSeq(text, closed[k] + 2, FindClose(text, closed[k] + 2) - 1))]

\* Wikilink::target_root: the target up to its first '#', canonicalised.
TargetRoot(link) ==
    LET at == IndexOf(link.target, "#")
    IN  IF at = 0 THEN CanonicaliseWikilink(link.target)
        ELSE CanonicaliseWikilink(SubSeq(link.target, 1, at - 1))

\* The text of a page grows by one piece.
WikiAppend(token) ==
    /\ wiki_pc = "input"
    /\ wiki_tokens < MaxWikiTokens
    /\ wiki_text' = wiki_text \o token
    /\ wiki_tokens' = wiki_tokens + 1
    /\ UNCHANGED <<wiki_links, wiki_roots, wiki_pc>>
    /\ UNCHANGED notWikiVars

\* find_links(text).into_iter().map(|link| link.target_root()), as the
\* closure of generate_outgoing_links runs it (links.rs lines 53-55).
WikiScan ==
    /\ wiki_pc = "input"
    /\ wiki_links' = FindLinks(wiki_text)
    /\ wiki_roots' = [k \in 1..Len(FindLinks(wiki_text)) |->
                         TargetRoot(FindLinks(wiki_text)[k])]
    /\ wiki_pc' = IF \E k \in 1..Len(FindLinks(wiki_text)) :
                        ~TargetRoot(FindLinks(wiki_text)[k]).ok
                  THEN "panicked" ELSE "scanned"
    /\ UNCHANGED <<wiki_text, wiki_tokens>>
    /\ UNCHANGED notWikiVars

InitWiki ==
    /\ wiki_text = <<>>
    /\ wiki_tokens = 0
    /\ wiki_links = <<>>
    /\ wiki_roots = <<>>
    /\ wiki_pc = "input"

NextWiki ==
    \/ \E token \in WikiTokens : WikiAppend(token)
    \/ WikiScan

(***************************************************************************)
(* find_links and target_root: claims                                      *)
(***************************************************************************)
\* C38: target_root returns a canonical title, without failing, for every
\* Wikilink that find_links produces, also for one whose target is empty or
\* is only an anchor.
C38_TargetRootTotal ==
    (wiki_pc # "input") =>
        /\ wiki_pc = "scanned"
        /\ \A k \in 1..Len(wiki_roots) : wiki_roots[k].ok

\* The target of a link up to its anchor.
RootPart(link) ==
    LET at == IndexOf(link.target, "#")
    IN  IF at = 0 THEN link.target ELSE SubSeq(link.target, 1, at - 1)

\* What holds instead: on the model's wikitexts target_root fails exactly for
\* the links whose target is empty up to its anchor.
FailsOnEmptyRoot ==
    (wiki_pc # "input") =>
        \A k \in 1..Len(wiki_roots) :
            wiki_roots[k].ok <=> (RootPart(wiki_links[k]) # <<>>)

(***************************************************************************)
(* complete_path: the frontier indices                                     *)
(***************************************************************************)
\* complete_path is about to be called and will find a connection.
PathFound == solver_pc = "loop" /\ ~EitherEmpty /\ Connections # {}

\* C40: in complete_path neither start_rank nor end_rank is decremented
\* when it is 0, whichever common key is the meeting point and however many
\* frontiers there are.
C40_RankInRange ==
    /\ PathFound => \A connection \in Connections : ~CompletePath(connection).underflow
    /\ solver_pc # "panicked"

\* What holds instead: for every meeting point the first loop decrements
\* start_rank once more when it is 0, after it has read the sentinel 0 of
\* the start article; the path it has built by then is complete.
UnderflowAtStartArticle ==
    PathFound =>
        \A connection \in Connections :
            /\ CompletePath(connection).underflow
            /\ Len(WalkStart(connection, Len(start) - 1, <<>>, FALSE).path) = Len(start)

(***************************************************************************)
(* Specifications                                                          *)
(***************************************************************************)
Init == InitSolver /\ InitSearch /\ InitMap /\ InitLinks /\ InitCanon /\ InitTitle
        /\ InitMemo /\ InitPage /\ InitStream /\ InitConc
        /\ InitIndex /\ InitSampler /\ InitDownload /\ InitCmd
        /\ InitWiki

SpecSolver == Init /\ [][NextSolver]_vars

SpecSearch == Init /\ [][NextSearch]_vars

\* The loop of the search goes on while it can.
SpecSearchFair == SpecSearch /\ WF_vars(SearchLoop)

SpecMap == Init /\ [][NextMap]_vars

SpecLinks == Init /\ [][NextLinks]_vars

SpecCanon == Init /\ [][NextCanon]_vars

SpecTitle == Init /\ [][NextTitle]_vars

SpecMemo == Init /\ [][NextMemo]_vars

SpecPage == Init /\ [][NextPage]_vars

SpecStream == Init /\ [][NextStream]_vars

\* The receiving loop goes on while it can.
SpecStreamLoop ==
    Init /\ [][NextStreamLoop]_vars /\ WF_vars(StreamRecv) /\ WF_vars(StreamEnd)

SpecConc == Init /\ [][NextConc]_vars

SpecIndex == Init /\ [][NextIndex]_vars

SpecSampler == Init /\ [][NextSampler]_vars

SpecDownload == Init /\ [][NextDownload]_vars

SpecWiki == Init /\ [][NextWiki]_vars

====
